---- MODULE Spec2Model ----
(***************************************************************************)
(* Scheduling-and-delivery pipeline of git-x-flow-worker: the post ledger  *)
(* (ScheduledPost rows), the BullMQ work queue, the scheduler's cron       *)
(* tasks (queueUpcomingPosts, recoverStuckJobs, resetDailyRateLimits) and  *)
(* the worker's job processor (processTwitterPost).  Every awaited storage *)
(* or queue call of the source is one step, so that runs of the scheduler  *)
(* tasks and of the workers interleave as they do in the two processes.    *)
(*                                                                         *)
(* Time is counted in minutes.  Nullable columns hold Null (the empty      *)
(* tuple) or Some(v) (a one-element tuple).                                *)
(***************************************************************************)
EXTENDS Integers, Sequences, FiniteSets, TLC

VARIABLES
    rows,            \* ScheduledPost table: post id -> row
    contentPosted,   \* GeneratedContent.status = 'posted', per post
    connection,      \* SocialConnection of the posts' user: Null or Some(row)
    rateLimit,       \* RateLimitState row of 'twitter': Null (no row) or Some(row)
    jobs,            \* the queue: sequence of job records, in order of creation
    now,             \* wall clock, minutes
    published,       \* tweets the platform accepted, per post
    crashes,         \* worker crashes so far
    prPc, prNow, prPosts, prJob,      \* runs of queueUpcomingPosts
    rcPc, rcTodo, rcCur,              \* the run of recoverStuckJobs
    wPc, wJob, wErr, wTweet, wRes,    \* invocations of processTwitterPost
    gwPc, gwIn, gwTodo, gwMediaIds,   \* a call of postTweet, looked at on its own:
    gwCalls, gwErr, gwOut,            \* its position, its input, its locals, its
                                      \* network calls so far, the error it has
                                      \* caught and its outcome
    vcIn, vcOut,                      \* a call of validateTweetContent: its
                                      \* argument and what it returned
    schPc,                            \* the scheduler process: where main() is
    timers, queueOpen, serverOpen     \* its cron jobs, queue connection and
                                      \* health server

ledgerVars == <<rows, contentPosted, rateLimit, connection>>
promoVars  == <<prPc, prNow, prPosts, prJob>>
recovVars  == <<rcPc, rcTodo, rcCur>>
workVars   == <<wPc, wJob, wErr, wTweet, wRes>>
envVars    == <<now, published, crashes>>
gwVars     == <<gwPc, gwIn, gwTodo, gwMediaIds, gwCalls, gwErr, gwOut>>
valVars    == <<vcIn, vcOut>>
procVars   == <<timers, queueOpen, serverOpen>>
schVars    == <<schPc, timers, queueOpen, serverOpen>>
\* what a step of the pipeline leaves alone
sideVars   == <<gwVars, valVars, schVars>>
vars == <<rows, contentPosted, rateLimit, connection, jobs, now, published, crashes,
          prPc, prNow, prPosts, prJob, rcPc, rcTodo, rcCur,
          wPc, wJob, wErr, wTweet, wRes,
          gwPc, gwIn, gwTodo, gwMediaIds, gwCalls, gwErr, gwOut,
          vcIn, vcOut, schPc, timers, queueOpen, serverOpen>>

----------------------------------------------------------------------------
(* Bounds of the model *)

PostIds   == {"a", "b"}
Promoters == {"startup", "cron"}
Workers   == {"w1"}
Times     == {0, 2, 17}
Midnight  == 17
FarFuture == 2000
TokenExpiry == 1
MaxCrashes == 1

(* Program constants *)

LookAheadMinutes      == 5
StuckThresholdMinutes == 10
BatchSize             == 100
PriorityBase          == 10
MsPerMinute           == 60000
DefaultAttempts       == 3
BackoffDelayMs        == 60000
HandlerDefaultAttempts == 3
DailyMax              == 50
FirstRemaining        == 49

----------------------------------------------------------------------------
(* Values *)

Null    == <<>>
Some(v) == <<v>>
Val(o)  == o[1]

Max(x, y) == IF x >= y THEN x ELSE y

RECURSIVE Pow2(_)
Pow2(n) == IF n <= 0 THEN 1 ELSE 2 * Pow2(n - 1)

Statuses == {"PENDING", "QUEUED", "PROCESSING", "POSTED", "FAILED"}

NewRow(prio, sched) ==
    [status |-> "PENDING", platform |-> "twitter",
     priority |-> prio, scheduledFor |-> sched,
     jobId |-> Null, queuedAt |-> Null, startedAt |-> Null,
     completedAt |-> Null, lastAttemptAt |-> Null, attempts |-> 0,
     errorCode |-> Null, errorMessage |-> Null,
     platformPostId |-> Null, platformUrl |-> Null]

\* the active twitter connection of the user, as socialConnection.findFirst
\* returns it: no row, or a row with or without its refreshToken and with or
\* without an expiresAt
Connections ==
    {Null} \cup {Some(c) : c \in [refreshToken : BOOLEAN, expiresAt : {Null, Some(TokenExpiry)}]}

----------------------------------------------------------------------------
(* Error taxonomy *)

TwitterErrorCodes ==
    {"NO_CONNECTION", "MISSING_ACCESS_SECRET", "TOKEN_EXPIRED", "CONFIG_MISSING",
     "RATE_LIMITED", "AUTH_INVALID", "ACCOUNT_SUSPENDED", "DUPLICATE_TWEET",
     "FORBIDDEN", "TWITTER_SERVER_ERROR", "NETWORK_ERROR", "UNKNOWN_TWITTER_ERROR"}

\* the retryable flag each TwitterError is constructed with
TwitterErrorRetryable(code) ==
    code \in {"RATE_LIMITED", "TWITTER_SERVER_ERROR", "NETWORK_ERROR"}

\* A thrown value: a TwitterError (kind "twitter", with its code) or a plain
\* Error (kind "plain"), whose message names a network failure or does not.
TwitterError(code) == [kind |-> "twitter", code |-> code, net |-> FALSE]
PlainError(net)    == [kind |-> "plain", code |-> "", net |-> net]

categorizeError(error) ==
    IF error.kind = "twitter"
    THEN [code |-> error.code, message |-> "msg:" \o error.code,
          retryable |-> TwitterErrorRetryable(error.code)]
    ELSE IF error.net
    THEN [code |-> "NETWORK_ERROR", message |-> "plain:ECONNREFUSED", retryable |-> TRUE]
    ELSE [code |-> "UNKNOWN_ERROR", message |-> "plain:other", retryable |-> FALSE]

----------------------------------------------------------------------------
(* The work queue *)

\* variant: a job id that does not carry the post id
JobIdShared(p) == "tweet-"
\* jobId: `tweet-${post.id}`
JobId(p) == "tweet-" \o p

JobIndices == DOMAIN jobs
JobsWithId(id) == {i \in JobIndices : jobs[i].id = id}

\* queue.getJob: the job with this id, 0 when there is none
getJob(id) == IF JobsWithId(id) = {} THEN 0 ELSE CHOOSE i \in JobsWithId(id) : TRUE

\* job?.getState()
getState(i) == IF i = 0 THEN "none" ELSE jobs[i].state

LiveStates == {"delayed", "waiting", "active"}

NewJob(id, p, delay, prio) ==
    [id |-> id, post |-> p, priority |-> prio, attempts |-> DefaultAttempts,
     delay |-> delay,
     state |-> IF delay > 0 THEN "delayed" ELSE "waiting",
     availableAt |-> now + (delay \div MsPerMinute),
     attemptsMade |-> 0]

\* variant: an add that ignores the custom job id
EnqueueAlways(id, p, delay, prio) == Append(jobs, NewJob(id, p, delay, prio))
\* queue.add with the jobId option: a job is created unless the id is in use
Enqueue(id, p, delay, prio) ==
    IF JobsWithId(id) = {}
    THEN Append(jobs, NewJob(id, p, delay, prio))
    ELSE jobs

----------------------------------------------------------------------------
\* no call of postTweet is looked at on its own
GatewayOff ==
    /\ gwPc = "off"
    /\ gwIn = Null
    /\ gwTodo = <<>>
    /\ gwMediaIds = <<>>
    /\ gwCalls = <<>>
    /\ gwErr = Null
    /\ gwOut = Null

\* no call of validateTweetContent is looked at
ValidateOff ==
    /\ vcIn = Null
    /\ vcOut = Null

\* the scheduler process is up, with its cron jobs started; where main() is
\* is not followed
SchedulerUp ==
    /\ schPc = "up"
    /\ timers = TRUE
    /\ queueOpen = TRUE
    /\ serverOpen = TRUE

Init ==
    /\ rows = [p \in PostIds |-> IF p = "a" THEN NewRow(1, 0) ELSE NewRow(0, FarFuture)]
    /\ contentPosted = [p \in PostIds |-> FALSE]
    /\ rateLimit = Null
    /\ connection \in Connections
    /\ jobs = <<>>
    /\ now = 0
    /\ published = [p \in PostIds |-> 0]
    /\ crashes = 0
    /\ prPc = [r \in Promoters |-> "idle"]
    /\ prNow = [r \in Promoters |-> 0]
    /\ prPosts = [r \in Promoters |-> <<>>]
    /\ prJob = [r \in Promoters |-> Null]
    /\ rcPc = "idle"
    /\ rcTodo = {}
    /\ rcCur = Null
    /\ wPc = [w \in Workers |-> "idle"]
    /\ wJob = [w \in Workers |-> 0]
    /\ wErr = [w \in Workers |-> Null]
    /\ wTweet = [w \in Workers |-> Null]
    /\ wRes = [w \in Workers |-> "none"]
    /\ GatewayOff
    /\ ValidateOff
    /\ SchedulerUp

\* the clock moves forward
Tick ==
    /\ \E t \in Times : t > now /\ now' = t
    /\ UNCHANGED <<sideVars, ledgerVars, jobs, published, crashes, promoVars, recovVars, workVars>>

----------------------------------------------------------------------------
(* queueUpcomingPosts *)

\* variant: the query does not look at the platform
DuePostsAnyPlatform(t) ==
    {p \in DOMAIN rows : /\ rows[p].status = "PENDING"
                        /\ rows[p].scheduledFor <= t + LookAheadMinutes}
\* where: status PENDING, platform twitter, scheduledFor <= lookAhead
DuePosts(t) ==
    {p \in DOMAIN rows : /\ rows[p].status = "PENDING"
                        /\ rows[p].platform = "twitter"
                        /\ rows[p].scheduledFor <= t + LookAheadMinutes}

\* variant: among rows of one priority the latest comes first
BeforeLatestFirst(p, q) ==
    \/ rows[p].priority > rows[q].priority
    \/ /\ rows[p].priority = rows[q].priority
       /\ rows[p].scheduledFor >= rows[q].scheduledFor
\* orderBy priority desc, scheduledFor asc
Before(p, q) ==
    \/ rows[p].priority > rows[q].priority
    \/ /\ rows[p].priority = rows[q].priority
       /\ rows[p].scheduledFor <= rows[q].scheduledFor

\* the rows of M in every order
TiedOrders(M) ==
    {s \in [1..Cardinality(M) -> M] : \A i, j \in 1..Cardinality(M) : i < j => s[i] # s[j]}

\* the orders the query can return the rows of S in: a row comes before
\* every row that orderBy ranks after it, and rows that orderBy does not
\* tell apart come in any order
RECURSIVE Orderings(_)
Orderings(S) ==
    IF S = {} THEN {<<>>}
    ELSE LET x == CHOOSE y \in S : TRUE
             L == {y \in S : Before(y, x) /\ ~Before(x, y)}
             U == {y \in S : Before(x, y) /\ ~Before(y, x)}
             M == S \ (L \cup U)
         IN {l \o m \o u : l \in Orderings(L), m \in TiedOrders(M), u \in Orderings(U)}

\* variant: the run takes one row less
TakeShort(s, n) == SubSeq(s, 1, IF Len(s) < n - 1 THEN Len(s) ELSE n - 1)
\* take: 100
Take(s, n) == SubSeq(s, 1, IF Len(s) < n THEN Len(s) ELSE n)

\* the run of main() at startup happens once, the cron tick again and again
RunOver(r) == IF r = "startup" THEN "done" ELSE "idle"

PromoteQuery(r) ==
    /\ prPc[r] = "idle"
    /\ \E s \in Orderings(DuePosts(now)) :
          /\ prPosts' = [prPosts EXCEPT ![r] = Take(s, BatchSize)]
          /\ prPc' = [prPc EXCEPT ![r] = IF Len(s) = 0 THEN RunOver(r) ELSE "add"]
    /\ prNow' = [prNow EXCEPT ![r] = now]
    /\ UNCHANGED <<sideVars, prJob, ledgerVars, jobs, envVars, recovVars, workVars>>

\* delay = Math.max(0, scheduledFor - now), in milliseconds
Delay(p, t) == Max(0, (rows[p].scheduledFor - t) * MsPerMinute)

\* variant: the application priority is handed to the queue as it is
QueuePriorityDirect(p) == rows[p].priority
\* priority: 10 - post.priority
QueuePriority(p) == PriorityBase - rows[p].priority

\* after one post of the batch: on to the next, or the run is over
PromoteAdvance(r) ==
    /\ prPosts' = [prPosts EXCEPT ![r] = Tail(prPosts[r])]
    /\ prPc' = [prPc EXCEPT ![r] = IF Len(prPosts[r]) = 1 THEN RunOver(r) ELSE "add"]
    /\ prJob' = [prJob EXCEPT ![r] = Null]
    /\ prNow' = [prNow EXCEPT ![r] = IF Len(prPosts[r]) = 1 THEN 0 ELSE prNow[r]]

\* queue.add resolves: a new job, or (the id exists) the job that holds the id
PromoteAdd(r) ==
    /\ prPc[r] = "add"
    /\ LET p  == Head(prPosts[r])
           id == JobId(p)
       IN /\ jobs' = Enqueue(id, p, Delay(p, prNow[r]), QueuePriority(p))
          /\ prJob' = [prJob EXCEPT ![r] = Some(id)]
    /\ prPc' = [prPc EXCEPT ![r] = "update"]
    /\ UNCHANGED <<sideVars, prNow, prPosts, ledgerVars, envVars, recovVars, workVars>>

\* variant: a rejected submission ends the run
PromoteAddFailsAborts(r) ==
    /\ prPc[r] = "add"
    /\ prPosts' = [prPosts EXCEPT ![r] = <<>>]
    /\ prPc' = [prPc EXCEPT ![r] = RunOver(r)]
    /\ prJob' = [prJob EXCEPT ![r] = Null]
    /\ prNow' = [prNow EXCEPT ![r] = 0]
    /\ UNCHANGED <<sideVars, ledgerVars, jobs, envVars, recovVars, workVars>>
\* queue.add rejects: 'already exists' for an id in use, or any other error;
\* both are caught, logged, and the row is left as it is
PromoteAddFails(r) ==
    /\ prPc[r] = "add"
    /\ PromoteAdvance(r)
    /\ UNCHANGED <<sideVars, ledgerVars, jobs, envVars, recovVars, workVars>>

\* data of the update to QUEUED
QueuedRow(row, jobId) ==
    [row EXCEPT !.status = "QUEUED", !.jobId = jobId, !.queuedAt = Some(now)]

\* scheduledPost.update to QUEUED
PromoteUpdate(r) ==
    /\ prPc[r] = "update"
    /\ LET p == Head(prPosts[r])
       IN rows' = [rows EXCEPT ![p] = QueuedRow(@, prJob[r])]
    /\ PromoteAdvance(r)
    /\ UNCHANGED <<sideVars, contentPosted, rateLimit, connection, jobs, envVars, recovVars, workVars>>

----------------------------------------------------------------------------
(* The worker pool: BullMQ hands a job to processTwitterPost *)

Available(i) ==
    /\ jobs[i].state \in {"waiting", "delayed"}
    /\ jobs[i].availableAt <= now

\* a free consumer takes the available job the queue ranks first
\* (lowest priority number)
Pickup(w) ==
    /\ wPc[w] = "idle"
    /\ \E i \in JobIndices :
          /\ Available(i)
          /\ \A k \in JobIndices : Available(k) => jobs[i].priority <= jobs[k].priority
          /\ jobs' = [jobs EXCEPT ![i].state = "active"]
          /\ wJob' = [wJob EXCEPT ![w] = i]
    /\ wPc' = [wPc EXCEPT ![w] = "mark"]
    /\ UNCHANGED <<sideVars, wErr, wTweet, wRes, ledgerVars, envVars, promoVars, recovVars>>

PostOf(w) == jobs[wJob[w]].post

\* variant: the mark writes attempts 1 in place of the increment
MarkedRowSetsOne(row) ==
    [row EXCEPT !.status = "PROCESSING", !.startedAt = Some(now),
                !.attempts = 1, !.lastAttemptAt = Some(now)]
\* data of the update that marks the row
MarkedRow(row) ==
    [row EXCEPT !.status = "PROCESSING", !.startedAt = Some(now),
                !.attempts = @ + 1, !.lastAttemptAt = Some(now)]

\* variant: the invocation goes on to the delivery without the update
MarkProcessingSkipped(w) ==
    /\ wPc[w] = "mark"
    /\ wPc' = [wPc EXCEPT ![w] = "deliver"]
    /\ UNCHANGED <<sideVars, wJob, wErr, wTweet, wRes, ledgerVars, jobs,
                   envVars, promoVars, recovVars>>
\* 1. mark job as processing
MarkProcessing(w) ==
    /\ wPc[w] = "mark"
    /\ rows' = [rows EXCEPT ![PostOf(w)] = MarkedRow(@)]
    /\ wPc' = [wPc EXCEPT ![w] = "deliver"]
    /\ UNCHANGED <<sideVars, wJob, wErr, wTweet, wRes, contentPosted, rateLimit, connection, jobs,
                   envVars, promoVars, recovVars>>

\* variant: the expiry is checked before the secret
CredentialErrorExpiryFirst(conn) ==
    IF conn = Null THEN Some("NO_CONNECTION")
    ELSE IF Val(conn).expiresAt # Null /\ Val(Val(conn).expiresAt) < now THEN Some("TOKEN_EXPIRED")
    ELSE IF ~Val(conn).refreshToken THEN Some("MISSING_ACCESS_SECRET")
    ELSE Null
\* 2.-4. the checks of the connection, in the order of the source
CredentialError(conn) ==
    IF conn = Null THEN Some("NO_CONNECTION")
    ELSE IF ~Val(conn).refreshToken THEN Some("MISSING_ACCESS_SECRET")
    ELSE IF Val(conn).expiresAt # Null /\ Val(Val(conn).expiresAt) < now THEN Some("TOKEN_EXPIRED")
    ELSE Null

\* 2.-4. the connection fails a check: the TwitterError is thrown and
\* postTweet is not called
CredentialsFail(w) ==
    /\ wPc[w] = "deliver"
    /\ CredentialError(connection) # Null
    /\ wErr' = [wErr EXCEPT ![w] = Some(TwitterError(Val(CredentialError(connection))))]
    /\ wPc' = [wPc EXCEPT ![w] = "catch"]
    /\ UNCHANGED <<sideVars, wJob, wTweet, wRes, ledgerVars, jobs, envVars, promoVars, recovVars>>

\* the connection passes the checks
CredentialsOk == CredentialError(connection) = Null

\* the failures postTweet is exercised with
GatewayFailures == {"RATE_LIMITED", "AUTH_INVALID"}

TweetId(p, n)  == <<p, n>>
TweetUrl(id)   == <<"https://twitter.com/i/status/", id>>

\* 5. postTweet resolves: the platform has published the tweet
PostTweetOk(w) ==
    /\ wPc[w] = "deliver"
    /\ CredentialsOk
    /\ published' = [published EXCEPT ![PostOf(w)] = @ + 1]
    /\ wTweet' = [wTweet EXCEPT ![w] = Some(TweetId(PostOf(w), published[PostOf(w)] + 1))]
    /\ wPc' = [wPc EXCEPT ![w] = "posted"]
    /\ UNCHANGED <<sideVars, wJob, wErr, wRes, ledgerVars, jobs, now, crashes, promoVars, recovVars>>

\* 5. postTweet rejects with a classified TwitterError
PostTweetFails(w) ==
    /\ wPc[w] = "deliver"
    /\ CredentialsOk
    /\ \E code \in GatewayFailures :
          wErr' = [wErr EXCEPT ![w] = Some(TwitterError(code))]
    /\ wPc' = [wPc EXCEPT ![w] = "catch"]
    /\ UNCHANGED <<sideVars, wJob, wTweet, wRes, ledgerVars, jobs, envVars, promoVars, recovVars>>

\* variant: the update after a successful post leaves the status
PostedRowKeepsStatus(row, tweetId) ==
    [row EXCEPT !.platformPostId = Some(tweetId),
                !.platformUrl = Some(TweetUrl(tweetId)), !.completedAt = Some(now),
                !.errorMessage = Null, !.errorCode = Null]
\* data of the update after a successful post
PostedRow(row, tweetId) ==
    [row EXCEPT !.status = "POSTED", !.platformPostId = Some(tweetId),
                !.platformUrl = Some(TweetUrl(tweetId)), !.completedAt = Some(now),
                !.errorMessage = Null, !.errorCode = Null]

\* 5. update database with success
WriteSuccess(w) ==
    /\ wPc[w] = "posted"
    /\ rows' = [rows EXCEPT ![PostOf(w)] = PostedRow(@, Val(wTweet[w]))]
    /\ wPc' = [wPc EXCEPT ![w] = "content"]
    /\ UNCHANGED <<sideVars, wJob, wErr, wTweet, wRes, contentPosted, rateLimit, connection, jobs,
                   envVars, promoVars, recovVars>>

\* 6. update GeneratedContent status
UpdateContent(w) ==
    /\ wPc[w] = "content"
    /\ contentPosted' = [contentPosted EXCEPT ![PostOf(w)] = TRUE]
    /\ wPc' = [wPc EXCEPT ![w] = "rate"]
    /\ UNCHANGED <<sideVars, wJob, wErr, wTweet, wRes, rows, rateLimit, connection, jobs,
                   envVars, promoVars, recovVars>>

\* 6. the read or the update of the content record rejects: the error is a
\* plain Error of the storage client, thrown inside the try block
UpdateContentFails(w) ==
    /\ wPc[w] = "content"
    /\ \E net \in BOOLEAN : wErr' = [wErr EXCEPT ![w] = Some(PlainError(net))]
    /\ wPc' = [wPc EXCEPT ![w] = "catch"]
    /\ UNCHANGED <<sideVars, wJob, wTweet, wRes, ledgerVars, jobs, envVars, promoVars, recovVars>>

\* variant: the upsert records the post and leaves postsRemaining
RateLimitUpsertNoDecrement(rl) ==
    IF rl = Null
    THEN Some([postsRemaining |-> DailyMax, windowResetAt |-> Null,
               lastPostAt |-> Some(now), consecutiveFailures |-> 0])
    ELSE Some([Val(rl) EXCEPT !.lastPostAt = Some(now),
                              !.consecutiveFailures = 0])
\* rateLimitState.upsert of updateRateLimitState
RateLimitUpsert(rl) ==
    IF rl = Null
    THEN Some([postsRemaining |-> FirstRemaining, windowResetAt |-> Null,
               lastPostAt |-> Some(now), consecutiveFailures |-> 0])
    ELSE Some([Val(rl) EXCEPT !.postsRemaining = @ - 1,
                              !.lastPostAt = Some(now),
                              !.consecutiveFailures = 0])

\* 7. updateRateLimitState, then return { success: true, ... }
UpdateRateLimit(w) ==
    /\ wPc[w] = "rate"
    /\ rateLimit' = RateLimitUpsert(rateLimit)
    /\ wRes' = [wRes EXCEPT ![w] = "success"]
    /\ wPc' = [wPc EXCEPT ![w] = "finish"]
    /\ UNCHANGED <<sideVars, wJob, wErr, wTweet, rows, contentPosted, connection, jobs,
                   envVars, promoVars, recovVars>>

\* 7. the upsert rejects: updateRateLimitState logs, and the job still succeeds
UpdateRateLimitFails(w) ==
    /\ wPc[w] = "rate"
    /\ wRes' = [wRes EXCEPT ![w] = "success"]
    /\ wPc' = [wPc EXCEPT ![w] = "finish"]
    /\ UNCHANGED <<sideVars, wJob, wErr, wTweet, ledgerVars, jobs, envVars, promoVars, recovVars>>

\* job.opts.attempts || 3
AttemptCeiling(job) == IF job.attempts = 0 THEN HandlerDefaultAttempts ELSE job.attempts

\* variant: the comparison with the ceiling is inclusive
FailureStatusInclusive(errorInfo, job) ==
    IF errorInfo.retryable /\ job.attemptsMade <= AttemptCeiling(job)
    THEN "QUEUED" ELSE "FAILED"
\* the status the catch block writes
FailureStatus(errorInfo, job) ==
    IF errorInfo.retryable /\ job.attemptsMade < AttemptCeiling(job)
    THEN "QUEUED" ELSE "FAILED"

\* variant: the update with error info leaves the error code out
FailedRowNoCode(row, errorInfo, job) ==
    [row EXCEPT !.status = FailureStatus(errorInfo, job),
                !.errorMessage = Some(errorInfo.message)]
\* data of the update with error info
FailedRow(row, errorInfo, job) ==
    [row EXCEPT !.status = FailureStatus(errorInfo, job),
                !.errorMessage = Some(errorInfo.message),
                !.errorCode = Some(errorInfo.code)]

\* how the catch block leaves processTwitterPost: it rethrows or returns
FailureExit(errorInfo) == IF errorInfo.retryable THEN "threw" ELSE "failure"

\* the catch block
HandleFailure(w) ==
    /\ wPc[w] = "catch"
    /\ LET errorInfo == categorizeError(Val(wErr[w]))
       IN /\ rows' = [rows EXCEPT ![PostOf(w)] = FailedRow(@, errorInfo, jobs[wJob[w]])]
          /\ wRes' = [wRes EXCEPT ![w] = FailureExit(errorInfo)]
    /\ wPc' = [wPc EXCEPT ![w] = "finish"]
    /\ UNCHANGED <<sideVars, wJob, wErr, wTweet, contentPosted, rateLimit, connection, jobs,
                   envVars, promoVars, recovVars>>

\* exponential backoff of DEFAULT_JOB_OPTIONS, in minutes
Backoff(attemptsMade) == (BackoffDelayMs * Pow2(attemptsMade - 1)) \div MsPerMinute

\* what the queue does with a job whose processor has settled
Settle(job, res) ==
    IF res = "threw"
    THEN IF job.attemptsMade + 1 < job.attempts
         THEN [job EXCEPT !.attemptsMade = @ + 1, !.state = "delayed",
                          !.availableAt = now + Backoff(job.attemptsMade + 1)]
         ELSE [job EXCEPT !.attemptsMade = @ + 1, !.state = "failed"]
    ELSE [job EXCEPT !.state = "completed"]

\* processTwitterPost has returned or thrown; the consumer is free again
Finish(w) ==
    /\ wPc[w] = "finish"
    /\ jobs' = [jobs EXCEPT ![wJob[w]] = Settle(@, wRes[w])]
    /\ wPc' = [wPc EXCEPT ![w] = "idle"]
    /\ wJob' = [wJob EXCEPT ![w] = 0]
    /\ wErr' = [wErr EXCEPT ![w] = Null]
    /\ wTweet' = [wTweet EXCEPT ![w] = Null]
    /\ wRes' = [wRes EXCEPT ![w] = "none"]
    /\ UNCHANGED <<sideVars, ledgerVars, envVars, promoVars, recovVars>>

\* the worker process dies in the middle of an invocation
Crash(w) ==
    /\ wPc[w] \notin {"idle", "finish"}
    /\ crashes < MaxCrashes
    /\ crashes' = crashes + 1
    /\ wPc' = [wPc EXCEPT ![w] = "idle"]
    /\ wJob' = [wJob EXCEPT ![w] = 0]
    /\ wErr' = [wErr EXCEPT ![w] = Null]
    /\ wTweet' = [wTweet EXCEPT ![w] = Null]
    /\ wRes' = [wRes EXCEPT ![w] = "none"]
    /\ UNCHANGED <<sideVars, ledgerVars, jobs, now, published, promoVars, recovVars>>

Running(i) == \E w \in Workers : wPc[w] # "idle" /\ wJob[w] = i

\* the queue finds an active job that no consumer holds and makes it
\* waiting again
Stalled(i) ==
    /\ jobs[i].state = "active"
    /\ ~Running(i)
    /\ jobs' = [jobs EXCEPT ![i].state = "waiting", ![i].availableAt = now]
    /\ UNCHANGED <<sideVars, ledgerVars, envVars, promoVars, recovVars, workVars>>

----------------------------------------------------------------------------
(* recoverStuckJobs *)

\* where: status PROCESSING, startedAt < now - threshold
Stuck(p) ==
    /\ rows[p].status = "PROCESSING"
    /\ rows[p].startedAt # Null
    /\ Val(rows[p].startedAt) < now - StuckThresholdMinutes

StuckPosts == {[id |-> p, jobId |-> rows[p].jobId] : p \in {q \in DOMAIN rows : Stuck(q)}}

\* the run that main() awaits at startup is the first one; main() goes on
\* when that run returns
RecoverQuery ==
    /\ rcPc = "idle"
    /\ StuckPosts # {}
    /\ rcTodo' = StuckPosts
    /\ rcPc' = "lookup"
    /\ schPc' = IF schPc = "recover" THEN "recovering" ELSE schPc
    /\ UNCHANGED <<gwVars, valVars, procVars, rcCur, ledgerVars, jobs, envVars, promoVars, workVars>>

\* variant: the skip looks for a waiting job
JobActiveWaiting(state) == state = "waiting"
\* jobActive = state === 'active'
JobActive(state) == state = "active"

\* the states the lookup of a post's job can end with: the state of the job,
\* "none" when the row holds no jobId or the queue has no such job, "error"
\* when getJob or getState throws
LookupResults(post) ==
    IF post.jobId = Null THEN {"none"}
    ELSE {getState(getJob(Val(post.jobId))), "error"}

\* main() after the run it awaited: the signal handlers are registered
RecoverReturns == IF schPc = "recovering" THEN "started" ELSE schPc

RecoverNext(post) ==
    /\ rcTodo' = rcTodo \ {post}
    /\ rcPc' = IF rcTodo = {post} THEN "idle" ELSE "lookup"
    /\ rcCur' = Null
    /\ schPc' = IF rcTodo = {post} THEN RecoverReturns ELSE schPc

\* the job is looked up and found active: the post is skipped
RecoverSkip ==
    /\ rcPc = "lookup"
    /\ \E post \in rcTodo :
          /\ \E state \in LookupResults(post) : JobActive(state)
          /\ RecoverNext(post)
    /\ UNCHANGED <<gwVars, valVars, procVars, ledgerVars, jobs, envVars, promoVars, workVars>>

\* the job is not found active: the post is to be reset
RecoverLookup ==
    /\ rcPc = "lookup"
    /\ \E post \in rcTodo :
          \E state \in LookupResults(post) :
             /\ ~JobActive(state)
             /\ rcCur' = Some([post |-> post, state |-> state])
    /\ rcPc' = "reset"
    /\ UNCHANGED <<sideVars, rcTodo, ledgerVars, jobs, envVars, promoVars, workVars>>

TimeoutMessage == "Job timed out after 10 minutes and was reset"

\* variant: a reset that keeps the job id
ResetRowKeepsJobId(row) ==
    [row EXCEPT !.status = "PENDING", !.queuedAt = Null,
                !.startedAt = Null, !.errorMessage = Some(TimeoutMessage)]
\* data of the update that resets a stuck row
ResetRow(row) ==
    [row EXCEPT !.status = "PENDING", !.jobId = Null, !.queuedAt = Null,
                !.startedAt = Null, !.errorMessage = Some(TimeoutMessage)]

\* reset to PENDING for re-queuing
RecoverReset ==
    /\ rcPc = "reset"
    /\ LET post == Val(rcCur).post
       IN /\ rows' = [rows EXCEPT ![post.id] = ResetRow(@)]
          /\ RecoverNext(post)
    /\ UNCHANGED <<gwVars, valVars, procVars, contentPosted, rateLimit, connection, jobs, envVars, promoVars, workVars>>

----------------------------------------------------------------------------
(* resetDailyRateLimits *)

MinutesPerDay == 1440

\* rateLimitState.upsert of resetDailyRateLimits
DailyResetUpsert(rl) ==
    IF rl = Null
    THEN Some([postsRemaining |-> DailyMax, windowResetAt |-> Some(now + MinutesPerDay),
               lastPostAt |-> Null, consecutiveFailures |-> 0])
    ELSE Some([Val(rl) EXCEPT !.postsRemaining = DailyMax,
                              !.windowResetAt = Some(now + MinutesPerDay)])

DailyReset ==
    /\ now = Midnight
    /\ rateLimit' = DailyResetUpsert(rateLimit)
    /\ UNCHANGED <<sideVars, rows, contentPosted, connection, jobs, envVars, promoVars, recovVars, workVars>>

----------------------------------------------------------------------------
Next ==
    \/ Tick
    \/ \E r \in Promoters : PromoteQuery(r)
    \/ \E r \in Promoters : PromoteAdd(r)
    \/ \E r \in Promoters : PromoteAddFails(r)
    \/ \E r \in Promoters : PromoteUpdate(r)
    \/ RecoverQuery
    \/ RecoverSkip
    \/ RecoverLookup
    \/ RecoverReset
    \/ DailyReset
    \/ \E w \in Workers : Pickup(w)
    \/ \E w \in Workers : MarkProcessing(w)
    \/ \E w \in Workers : CredentialsFail(w)
    \/ \E w \in Workers : PostTweetOk(w)
    \/ \E w \in Workers : PostTweetFails(w)
    \/ \E w \in Workers : WriteSuccess(w)
    \/ \E w \in Workers : UpdateContent(w)
    \/ \E w \in Workers : UpdateContentFails(w)
    \/ \E w \in Workers : UpdateRateLimit(w)
    \/ \E w \in Workers : UpdateRateLimitFails(w)
    \/ \E w \in Workers : HandleFailure(w)
    \/ \E w \in Workers : Finish(w)
    \/ \E w \in Workers : Crash(w)
    \/ \E i \in JobIndices : Stalled(i)

Spec == Init /\ [][Next]_vars

----------------------------------------------------------------------------
(* processTwitterPost on its own: the queue holds one job for post "a",    *)
(* with any number of failed attempts behind it and any attempts option,   *)
(* and a consumer processes it.                                            *)

MaxAttemptsMade   == 3
JobAttemptOptions == {0, 1, DefaultAttempts}    \* 0: the option is not set

\* the RateLimitState row an invocation can find: none, or the row of a
\* window with this many posts remaining
HandlerQuotas == {DailyMax, 1}
HandlerRateLimits ==
    {Null} \cup {Some([postsRemaining |-> n, windowResetAt |-> Some(MinutesPerDay),
                        lastPostAt |-> Null, consecutiveFailures |-> 0]) :
                    n \in HandlerQuotas}

HandlerJob(made, attempts) ==
    [NewJob(JobId("a"), "a", 0, PriorityBase - 1) EXCEPT
        !.attemptsMade = made, !.attempts = attempts]

InitHandler ==
    /\ now = 0
    /\ rows = [p \in PostIds |->
                 IF p = "a" THEN QueuedRow(NewRow(1, 0), Some(JobId("a")))
                            ELSE NewRow(0, FarFuture)]
    /\ contentPosted = [p \in PostIds |-> FALSE]
    /\ rateLimit \in HandlerRateLimits
    /\ connection \in Connections
    /\ \E made \in 0..MaxAttemptsMade, attempts \in JobAttemptOptions :
          jobs = <<HandlerJob(made, attempts)>>
    /\ published = [p \in PostIds |-> 0]
    /\ crashes = 0
    /\ prPc = [r \in Promoters |-> "idle"]
    /\ prNow = [r \in Promoters |-> 0]
    /\ prPosts = [r \in Promoters |-> <<>>]
    /\ prJob = [r \in Promoters |-> Null]
    /\ rcPc = "idle"
    /\ rcTodo = {}
    /\ rcCur = Null
    /\ wPc = [w \in Workers |-> "idle"]
    /\ wJob = [w \in Workers |-> 0]
    /\ wErr = [w \in Workers |-> Null]
    /\ wTweet = [w \in Workers |-> Null]
    /\ wRes = [w \in Workers |-> "none"]
    /\ GatewayOff
    /\ ValidateOff
    /\ SchedulerUp

NextHandler ==
    \/ Tick
    \/ \E w \in Workers : Pickup(w)
    \/ \E w \in Workers : MarkProcessing(w)
    \/ \E w \in Workers : CredentialsFail(w)
    \/ \E w \in Workers : PostTweetOk(w)
    \/ \E w \in Workers : PostTweetFails(w)
    \/ \E w \in Workers : WriteSuccess(w)
    \/ \E w \in Workers : UpdateContent(w)
    \/ \E w \in Workers : UpdateContentFails(w)
    \/ \E w \in Workers : UpdateRateLimit(w)
    \/ \E w \in Workers : UpdateRateLimitFails(w)
    \/ \E w \in Workers : HandleFailure(w)
    \/ \E w \in Workers : Finish(w)

SpecHandler == InitHandler /\ [][NextHandler]_vars

----------------------------------------------------------------------------
(* processTwitterPost with its updates of the post's row failing: the one  *)
(* that marks the row, inside the try block, and the one of the catch      *)
(* block.                                                                  *)

\* 1. the update that marks the row rejects: the error is a plain Error of
\* the storage client, thrown inside the try block
MarkProcessingFails(w) ==
    /\ wPc[w] = "mark"
    /\ \E net \in BOOLEAN : wErr' = [wErr EXCEPT ![w] = Some(PlainError(net))]
    /\ wPc' = [wPc EXCEPT ![w] = "catch"]
    /\ UNCHANGED <<sideVars, wJob, wTweet, wRes, ledgerVars, jobs, envVars, promoVars, recovVars>>

\* the update of the catch block rejects: nothing encloses it, and its error
\* leaves processTwitterPost in place of the one that was categorized
HandleFailureFails(w) ==
    /\ wPc[w] = "catch"
    /\ \E net \in BOOLEAN : wErr' = [wErr EXCEPT ![w] = Some(PlainError(net))]
    /\ wRes' = [wRes EXCEPT ![w] = "threw"]
    /\ wPc' = [wPc EXCEPT ![w] = "finish"]
    /\ UNCHANGED <<sideVars, wJob, wTweet, ledgerVars, jobs, envVars, promoVars, recovVars>>

NextHandlerFaults ==
    \/ Tick
    \/ \E w \in Workers : Pickup(w)
    \/ \E w \in Workers : MarkProcessing(w)
    \/ \E w \in Workers : MarkProcessingFails(w)
    \/ \E w \in Workers : CredentialsFail(w)
    \/ \E w \in Workers : PostTweetOk(w)
    \/ \E w \in Workers : PostTweetFails(w)
    \/ \E w \in Workers : WriteSuccess(w)
    \/ \E w \in Workers : UpdateContent(w)
    \/ \E w \in Workers : UpdateContentFails(w)
    \/ \E w \in Workers : UpdateRateLimit(w)
    \/ \E w \in Workers : UpdateRateLimitFails(w)
    \/ \E w \in Workers : HandleFailure(w)
    \/ \E w \in Workers : HandleFailureFails(w)
    \/ \E w \in Workers : Finish(w)

SpecHandlerFaults == InitHandler /\ [][NextHandlerFaults]_vars

----------------------------------------------------------------------------
(* processTwitterPost under redelivery: the worker process can die in the  *)
(* middle of an invocation, and the queue hands the stalled job to a       *)
(* consumer again.  No scheduler task runs and every storage call works.   *)

NextRedeliver ==
    \/ Tick
    \/ \E w \in Workers : Pickup(w)
    \/ \E w \in Workers : MarkProcessing(w)
    \/ \E w \in Workers : CredentialsFail(w)
    \/ \E w \in Workers : PostTweetOk(w)
    \/ \E w \in Workers : PostTweetFails(w)
    \/ \E w \in Workers : WriteSuccess(w)
    \/ \E w \in Workers : UpdateContent(w)
    \/ \E w \in Workers : UpdateRateLimit(w)
    \/ \E w \in Workers : HandleFailure(w)
    \/ \E w \in Workers : Finish(w)
    \/ \E w \in Workers : Crash(w)
    \/ \E i \in JobIndices : Stalled(i)

SpecRedeliver == InitHandler /\ [][NextRedeliver]_vars

----------------------------------------------------------------------------
(* The pipeline under fair scheduling: one due post of a user whose        *)
(* connection is valid, for good or until its token expires; the cron      *)
(* ticks of promotion and recovery, the queue and the consumer all keep    *)
(* running, and the worker process can die in the middle of an invocation  *)
(* while the clock can still pass the stuck threshold.                     *)

InitLive ==
    /\ Init
    /\ connection # Null
    /\ Val(connection).refreshToken

\* the worker process dies, early enough for recovery to see the row stuck
LiveCrash(w) == now < Midnight /\ Crash(w)

PromoteLive == PromoteQuery("cron") \/ PromoteAdd("cron") \/ PromoteUpdate("cron")
RecoverLive == RecoverQuery \/ RecoverSkip \/ RecoverLookup \/ RecoverReset
WorkerLive(w) ==
    \/ Pickup(w)
    \/ MarkProcessing(w)
    \/ CredentialsFail(w)
    \/ PostTweetOk(w)
    \/ PostTweetFails(w)
    \/ WriteSuccess(w)
    \/ UpdateContent(w)
    \/ UpdateRateLimit(w)
    \/ HandleFailure(w)
    \/ Finish(w)
\* after the last clock reading of the model time goes on uncounted: the
\* delay of a delayed job elapses
DelayElapses(i) ==
    /\ \A t \in Times : t <= now
    /\ jobs[i].state = "delayed"
    /\ jobs[i].availableAt > now
    /\ jobs' = [jobs EXCEPT ![i].availableAt = now]
    /\ UNCHANGED <<sideVars, ledgerVars, envVars, promoVars, recovVars, workVars>>

QueueLive == \E i \in JobIndices : Stalled(i) \/ DelayElapses(i)

NextLive ==
    \/ Tick
    \/ PromoteLive
    \/ RecoverLive
    \/ \E w \in Workers : WorkerLive(w)
    \/ \E w \in Workers : LiveCrash(w)
    \/ QueueLive

\* the clock, the cron tasks, the queue and the consumers never stop
Fairness ==
    /\ WF_vars(Tick)
    /\ WF_vars(PromoteLive)
    /\ WF_vars(RecoverLive)
    /\ \A w \in Workers : WF_vars(WorkerLive(w))
    /\ WF_vars(QueueLive)

SpecLive == InitLive /\ [][NextLive]_vars /\ Fairness

----------------------------------------------------------------------------
(* queueUpcomingPosts on its own: the startup run and the cron ticks over  *)
(* a ledger of rows in every status, of both platforms, due now, due       *)
(* within the look-ahead, at its edge and beyond it                        *)

PromoteStatuses   == {"PENDING", "QUEUED", "POSTED", "FAILED"}
PromotePlatforms  == {"twitter", "linkedin"}
PromoteSchedules  == {2, LookAheadMinutes, LookAheadMinutes + 1}
PromotePriorities == {0, 1}

\* a row as the pipeline leaves it in this status: PENDING as scheduled,
\* QUEUED as promoted, POSTED and FAILED as the worker wrote them
LedgerRow(p, status, platform, prio, sched) ==
    LET pending == [NewRow(prio, sched) EXCEPT !.platform = platform]
        queued  == QueuedRow(pending, Some(JobId(p)))
        job     == NewJob(JobId(p), p, 0, PriorityBase - prio)
    IN CASE status = "PENDING" -> pending
         [] status = "QUEUED"  -> queued
         [] status = "POSTED"  -> PostedRow(MarkedRow(queued), TweetId(p, 1))
         [] status = "FAILED"  ->
               FailedRow(MarkedRow(queued), categorizeError(TwitterError("AUTH_INVALID")), job)

\* the queue holds the jobs of the QUEUED rows; the jobs of POSTED and FAILED
\* rows have been removed by age (removeOnComplete, removeOnFail)
LedgerJobs(rs) ==
    LET job(p) == IF rs[p].status = "QUEUED"
                  THEN <<NewJob(JobId(p), p, Delay(p, 0), PriorityBase - rs[p].priority)>>
                  ELSE <<>>
    IN job("a") \o job("b")

InitPromote ==
    /\ now = 0
    /\ rows \in [PostIds -> UNION {{LedgerRow(p, st, pl, pr, sc) :
                                      st \in PromoteStatuses, pl \in PromotePlatforms,
                                      pr \in PromotePriorities, sc \in PromoteSchedules} :
                                   p \in PostIds}]
    /\ \A p \in PostIds : rows[p].jobId \in {Null, Some(JobId(p))}
    /\ \A p \in PostIds : rows[p].status = "POSTED" => Val(rows[p].platformPostId) = TweetId(p, 1)
    /\ jobs = LedgerJobs(rows)
    /\ contentPosted = [p \in PostIds |-> rows[p].status = "POSTED"]
    /\ rateLimit = Null
    /\ connection = Null
    /\ published = [p \in PostIds |-> IF rows[p].status = "POSTED" THEN 1 ELSE 0]
    /\ crashes = 0
    /\ prPc = [r \in Promoters |-> "idle"]
    /\ prNow = [r \in Promoters |-> 0]
    /\ prPosts = [r \in Promoters |-> <<>>]
    /\ prJob = [r \in Promoters |-> Null]
    /\ rcPc = "idle"
    /\ rcTodo = {}
    /\ rcCur = Null
    /\ wPc = [w \in Workers |-> "idle"]
    /\ wJob = [w \in Workers |-> 0]
    /\ wErr = [w \in Workers |-> Null]
    /\ wTweet = [w \in Workers |-> Null]
    /\ wRes = [w \in Workers |-> "none"]
    /\ GatewayOff
    /\ ValidateOff
    /\ SchedulerUp

NextPromote ==
    \/ Tick
    \/ \E r \in Promoters : PromoteQuery(r)
    \/ \E r \in Promoters : PromoteAdd(r)
    \/ \E r \in Promoters : PromoteAddFails(r)
    \/ \E r \in Promoters : PromoteUpdate(r)

SpecPromote == InitPromote /\ [][NextPromote]_vars

----------------------------------------------------------------------------
(* The delivery gateway: postTweet, uploadMedia, mapTwitterError.  A text  *)
(* is a sequence of words, includes(word) a search in it; the empty        *)
(* sequence is the empty (or missing) string.                              *)

MaxMedia == 5
MediaLimit == 4
MediaUrls == <<"A", "B", "C", "D", "E", "F">>
ContentLengths == {1, 280, 281}

\* mediaUrls of a call: absent, or a list of up to MaxMedia URLs
MediaLists == {Null} \cup {Some(SubSeq(MediaUrls, 1, n)) : n \in 0..MaxMedia}

\* params of postTweet, and whether the environment holds the two API keys
GatewayInputs ==
    [config : BOOLEAN, content : [length : ContentLengths], mediaUrls : MediaLists]

\* what an item of the media loop can meet: fetch rejects, the response is
\* not ok, uploadMedia rejects, or both calls succeed
MediaOutcomes == {"fetchThrows", "notOk", "uploadThrows", "ok"}

MediaId(url) == "media-" \o url

\* the errors twitter-api-v2 rejects with: code is an HTTP status (status,
\* 0 when code is not a number), an errno string (errno, "" when it is not
\* one) or missing; rateLimit is the rate-limit metadata of the response
ErrorStatuses == {0, 400, 401, 403, 429, 500, 599, 600}
ErrorErrnos   == {"", "ECONNREFUSED", "ETIMEDOUT", "ENOTFOUND", "EPIPE"}
ErrorMessages == {<<>>, <<"suspended">>, <<"duplicate">>, <<"not", "permitted">>}
ErrorDetails  == {<<>>, <<"suspended">>, <<"duplicate">>}
ApiErrors ==
    {e \in [status : ErrorStatuses, errno : ErrorErrnos, rateLimit : BOOLEAN,
            message : ErrorMessages, detail : ErrorDetails] :
        e.status = 0 \/ e.errno = ""}

Includes(text, word) == \E i \in DOMAIN text : text[i] = word

\* new TwitterError(code, message, retryable)
NewTwitterError(code, message, retryable) ==
    [kind |-> "twitter", code |-> code, message |-> message, retryable |-> retryable]

\* variant: an error that matches no case is retryable
mapTwitterErrorOpen(error) ==
    IF error.status = 429 \/ error.rateLimit
    THEN NewTwitterError("RATE_LIMITED",
                         <<"Twitter rate limit exceeded. Please try again later.">>, TRUE)
    ELSE IF error.status = 401
    THEN NewTwitterError("AUTH_INVALID",
                         <<"Twitter authentication is invalid. User needs to reconnect.">>,
                         FALSE)
    ELSE IF error.status = 403
    THEN LET message == IF error.message # <<>> THEN error.message ELSE error.detail
         IN IF Includes(message, "suspended")
            THEN NewTwitterError("ACCOUNT_SUSPENDED", <<"Twitter account is suspended.">>,
                                 FALSE)
            ELSE IF Includes(message, "duplicate")
            THEN NewTwitterError("DUPLICATE_TWEET",
                                 <<"This tweet appears to be a duplicate.">>, FALSE)
            ELSE NewTwitterError("FORBIDDEN", <<"Tweet rejected by Twitter:">> \o message,
                                 FALSE)
    ELSE IF error.status >= 500 /\ error.status < 600
    THEN NewTwitterError("TWITTER_SERVER_ERROR",
                         <<"Twitter is experiencing issues. Will retry.">>, TRUE)
    ELSE IF error.errno \in {"ECONNREFUSED", "ETIMEDOUT", "ENOTFOUND"}
    THEN NewTwitterError("NETWORK_ERROR", <<"Network error connecting to Twitter.">>, TRUE)
    ELSE NewTwitterError("UNKNOWN_TWITTER_ERROR",
                         IF error.message # <<>> THEN error.message
                         ELSE <<"An unknown Twitter error occurred.">>,
                         TRUE)
\* mapTwitterError: the first case that matches, in the order of the source
mapTwitterError(error) ==
    IF error.status = 429 \/ error.rateLimit
    THEN NewTwitterError("RATE_LIMITED",
                         <<"Twitter rate limit exceeded. Please try again later.">>, TRUE)
    ELSE IF error.status = 401
    THEN NewTwitterError("AUTH_INVALID",
                         <<"Twitter authentication is invalid. User needs to reconnect.">>,
                         FALSE)
    ELSE IF error.status = 403
    THEN LET message == IF error.message # <<>> THEN error.message ELSE error.detail
         IN IF Includes(message, "suspended")
            THEN NewTwitterError("ACCOUNT_SUSPENDED", <<"Twitter account is suspended.">>,
                                 FALSE)
            ELSE IF Includes(message, "duplicate")
            THEN NewTwitterError("DUPLICATE_TWEET",
                                 <<"This tweet appears to be a duplicate.">>, FALSE)
            ELSE NewTwitterError("FORBIDDEN", <<"Tweet rejected by Twitter:">> \o message,
                                 FALSE)
    ELSE IF error.status >= 500 /\ error.status < 600
    THEN NewTwitterError("TWITTER_SERVER_ERROR",
                         <<"Twitter is experiencing issues. Will retry.">>, TRUE)
    ELSE IF error.errno \in {"ECONNREFUSED", "ETIMEDOUT", "ENOTFOUND"}
    THEN NewTwitterError("NETWORK_ERROR", <<"Network error connecting to Twitter.">>, TRUE)
    ELSE NewTwitterError("UNKNOWN_TWITTER_ERROR",
                         IF error.message # <<>> THEN error.message
                         ELSE <<"An unknown Twitter error occurred.">>,
                         FALSE)

\* a network call of postTweet, as the log of the call keeps it: fetch of
\* a URL, v1.uploadMedia of its bytes, v2.tweet with the ids attached
NetCall(op, url, ok, media) == [op |-> op, url |-> url, ok |-> ok, media |-> media]

\* the network calls one item of the media loop makes
MediaCalls(url, outcome) ==
    CASE outcome = "fetchThrows"  -> <<NetCall("fetch", url, FALSE, <<>>)>>
      [] outcome = "notOk"        -> <<NetCall("fetch", url, FALSE, <<>>)>>
      [] outcome = "uploadThrows" -> <<NetCall("fetch", url, TRUE, <<>>),
                                       NetCall("upload", url, FALSE, <<>>)>>
      [] outcome = "ok"           -> <<NetCall("fetch", url, TRUE, <<>>),
                                       NetCall("upload", url, TRUE, <<>>)>>

\* the keys of the environment are missing: CONFIG_MISSING, thrown before
\* the try block
GwConfigMissing ==
    /\ gwPc = "start"
    /\ ~gwIn.config
    /\ gwOut' = Some([ok |-> FALSE,
                      error |-> NewTwitterError("CONFIG_MISSING",
                                   <<"TWITTER_API_KEY and TWITTER_API_SECRET must be set in environment variables.">>,
                                   FALSE)])
    /\ gwPc' = "done"
    /\ UNCHANGED <<valVars, schVars, gwIn, gwTodo, gwMediaIds, gwCalls, gwErr, ledgerVars, jobs, envVars,
                   promoVars, recovVars, workVars>>

\* the client is built; with media URLs, uploadMedia starts on the first 4
GwBegin ==
    /\ gwPc = "start"
    /\ gwIn.config
    /\ LET urls == IF gwIn.mediaUrls = Null THEN <<>> ELSE Val(gwIn.mediaUrls)
       IN /\ gwTodo' = Take(urls, MediaLimit)
          /\ gwPc' = IF Len(urls) > 0 THEN "media" ELSE "tweet"
    /\ UNCHANGED <<valVars, schVars, gwIn, gwMediaIds, gwCalls, gwErr, gwOut, ledgerVars, jobs, envVars,
                   promoVars, recovVars, workVars>>

\* variant: the id of an item is pushed whether or not the item succeeded
GwMediaPushesAlways ==
    /\ gwPc = "media"
    /\ \E outcome \in MediaOutcomes :
          LET url == Head(gwTodo)
          IN /\ gwCalls' = gwCalls \o MediaCalls(url, outcome)
             /\ gwMediaIds' = Append(gwMediaIds, MediaId(url))
    /\ gwTodo' = Tail(gwTodo)
    /\ gwPc' = IF Len(gwTodo) = 1 THEN "tweet" ELSE "media"
    /\ UNCHANGED <<valVars, schVars, gwIn, gwErr, gwOut, ledgerVars, jobs, envVars, promoVars, recovVars,
                   workVars>>
\* one round of the loop of uploadMedia: download, upload, push the id; a
\* failure is logged and the loop goes on
GwMedia ==
    /\ gwPc = "media"
    /\ \E outcome \in MediaOutcomes :
          LET url == Head(gwTodo)
          IN /\ gwCalls' = gwCalls \o MediaCalls(url, outcome)
             /\ gwMediaIds' = IF outcome = "ok" THEN Append(gwMediaIds, MediaId(url))
                                                ELSE gwMediaIds
    /\ gwTodo' = Tail(gwTodo)
    /\ gwPc' = IF Len(gwTodo) = 1 THEN "tweet" ELSE "media"
    /\ UNCHANGED <<valVars, schVars, gwIn, gwErr, gwOut, ledgerVars, jobs, envVars, promoVars, recovVars,
                   workVars>>

GatewayTweetId == "t1"

\* client.v2.tweet resolves
GwTweetOk ==
    /\ gwPc = "tweet"
    /\ gwCalls' = Append(gwCalls, NetCall("tweet", "", TRUE, gwMediaIds))
    /\ gwOut' = Some([ok |-> TRUE, tweetId |-> GatewayTweetId,
                      tweetUrl |-> TweetUrl(GatewayTweetId)])
    /\ gwPc' = "done"
    /\ UNCHANGED <<valVars, schVars, gwIn, gwTodo, gwMediaIds, gwErr, ledgerVars, jobs, envVars,
                   promoVars, recovVars, workVars>>

\* client.v2.tweet rejects
GwTweetRejects ==
    /\ gwPc = "tweet"
    /\ gwCalls' = Append(gwCalls, NetCall("tweet", "", FALSE, gwMediaIds))
    /\ \E error \in ApiErrors : gwErr' = Some(error)
    /\ gwPc' = "catch"
    /\ UNCHANGED <<valVars, schVars, gwIn, gwTodo, gwMediaIds, gwOut, ledgerVars, jobs, envVars,
                   promoVars, recovVars, workVars>>

\* the catch block: throw mapTwitterError(error)
GwCatch ==
    /\ gwPc = "catch"
    /\ gwOut' = Some([ok |-> FALSE, error |-> mapTwitterError(Val(gwErr))])
    /\ gwPc' = "done"
    /\ UNCHANGED <<valVars, schVars, gwIn, gwTodo, gwMediaIds, gwCalls, gwErr, ledgerVars, jobs, envVars,
                   promoVars, recovVars, workVars>>

InitGateway ==
    /\ gwPc = "start"
    /\ gwIn \in GatewayInputs
    /\ gwTodo = <<>>
    /\ gwMediaIds = <<>>
    /\ gwCalls = <<>>
    /\ gwErr = Null
    /\ gwOut = Null
    /\ now = 0
    /\ rows = [p \in PostIds |-> NewRow(0, 0)]
    /\ contentPosted = [p \in PostIds |-> FALSE]
    /\ rateLimit = Null
    /\ connection = Null
    /\ jobs = <<>>
    /\ published = [p \in PostIds |-> 0]
    /\ crashes = 0
    /\ prPc = [r \in Promoters |-> "idle"]
    /\ prNow = [r \in Promoters |-> 0]
    /\ prPosts = [r \in Promoters |-> <<>>]
    /\ prJob = [r \in Promoters |-> Null]
    /\ rcPc = "idle"
    /\ rcTodo = {}
    /\ rcCur = Null
    /\ wPc = [w \in Workers |-> "idle"]
    /\ wJob = [w \in Workers |-> 0]
    /\ wErr = [w \in Workers |-> Null]
    /\ wTweet = [w \in Workers |-> Null]
    /\ wRes = [w \in Workers |-> "none"]
    /\ ValidateOff
    /\ SchedulerUp

NextGateway ==
    \/ GwConfigMissing
    \/ GwBegin
    \/ GwMedia
    \/ GwTweetOk
    \/ GwTweetRejects
    \/ GwCatch

SpecGateway == InitGateway /\ [][NextGateway]_vars

----------------------------------------------------------------------------
(* The scheduler's tasks run after run, at midnight, over a ledger of about *)
(* a hundred due rows: more rows, fewer rows and as many rows as one run    *)
(* of queueUpcomingPosts takes, a row of another platform, a row that is    *)
(* not due, and a row that a dead worker left in PROCESSING.                *)

MaxBatchRows == 102
BatchCounts  == {BatchSize - 1, BatchSize, BatchSize + 1, MaxBatchRows}

Digits == <<"0", "1", "2", "3", "4", "5", "6", "7", "8", "9">>

\* the id of the n-th row
BatchId(n) ==
    "p" \o Digits[(n \div 100) + 1] \o Digits[((n \div 10) % 10) + 1] \o Digits[(n % 10) + 1]

\* the place of the n-th row in the order of the query, which is not the
\* order of the ids
BatchRank(n) == (n * 37) % 103

\* the n-th row: priorities 0 to 2, every row overdue, no two rows with the
\* same priority and time unless tie asks for the rows ranked BatchSize and
\* BatchSize + 1 to be alike
BatchRow(n, tie) ==
    LET r == BatchRank(n)
        k == IF tie /\ r = BatchSize + 1 THEN BatchSize ELSE r
    IN NewRow((MaxBatchRows + 1 - k) \div 40, Midnight - 200 + k)

\* the row a worker marked PROCESSING more than the threshold ago
StuckRow ==
    [MarkedRow(QueuedRow(NewRow(3, Midnight - 300), Some(JobId("stuck")))) EXCEPT
        !.queuedAt = Some(Midnight - StuckThresholdMinutes - 1),
        !.startedAt = Some(Midnight - StuckThresholdMinutes - 1),
        !.lastAttemptAt = Some(Midnight - StuckThresholdMinutes - 1)]

BatchLedger(count, tie) ==
    [p \in {BatchId(n) : n \in 1..count} \cup {"linkedin", "later", "stuck"} |->
        CASE p = "linkedin" -> [NewRow(3, Midnight) EXCEPT !.platform = "linkedin"]
          [] p = "later"    -> NewRow(3, FarFuture)
          [] p = "stuck"    -> StuckRow
          [] OTHER          -> BatchRow(CHOOSE n \in 1..count : BatchId(n) = p, tie)]

\* the job of the stuck row: gone from the queue, held as active, or
\* waiting again
StuckJobs ==
    {<<>>} \cup {<<[NewJob(JobId("stuck"), "stuck", 0, PriorityBase - 3) EXCEPT
                      !.state = st, !.availableAt = Midnight - StuckThresholdMinutes - 1]>> :
                    st \in {"active", "waiting"}}

InitBatch ==
    /\ now = Midnight
    /\ \E count \in BatchCounts, tie \in BOOLEAN : rows = BatchLedger(count, tie)
    /\ contentPosted = [p \in DOMAIN rows |-> FALSE]
    /\ rateLimit \in HandlerRateLimits
    /\ connection = Null
    /\ jobs \in StuckJobs
    /\ published = [p \in DOMAIN rows |-> 0]
    /\ crashes = 0
    /\ prPc = [r \in Promoters |-> "idle"]
    /\ prNow = [r \in Promoters |-> 0]
    /\ prPosts = [r \in Promoters |-> <<>>]
    /\ prJob = [r \in Promoters |-> Null]
    /\ rcPc = "idle"
    /\ rcTodo = {}
    /\ rcCur = Null
    /\ wPc = [w \in Workers |-> "idle"]
    /\ wJob = [w \in Workers |-> 0]
    /\ wErr = [w \in Workers |-> Null]
    /\ wTweet = [w \in Workers |-> Null]
    /\ wRes = [w \in Workers |-> "none"]
    /\ GatewayOff
    /\ ValidateOff
    /\ SchedulerUp

\* a task starts when no run of another task is under way
BatchPromoteQuery == rcPc = "idle" /\ PromoteQuery("cron")
BatchRecoverQuery == prPc["cron"] = "idle" /\ RecoverQuery
BatchDailyReset   == rcPc = "idle" /\ prPc["cron"] = "idle" /\ DailyReset

NextBatch ==
    \/ BatchPromoteQuery
    \/ PromoteAdd("cron")
    \/ PromoteUpdate("cron")
    \/ BatchRecoverQuery
    \/ RecoverSkip
    \/ RecoverLookup
    \/ RecoverReset
    \/ BatchDailyReset

SpecBatch == InitBatch /\ [][NextBatch]_vars

----------------------------------------------------------------------------
(* Promotion tick after tick over a ledger in which the rows that sort     *)
(* first cannot be submitted: the queue rejects them on every tick, so     *)
(* they stay PENDING.  There are as many of them as one run takes, or one  *)
(* less, and after them comes one ordinary due row.                        *)

StarveCounts == {BatchSize - 1, BatchSize}

\* the rows the queue rejects have a higher priority than row "a", and no
\* two of them the same scheduledFor
StarveLedger(count) ==
    [p \in {BatchId(n) : n \in 1..count} \cup {"a"} |->
        IF p = "a" THEN NewRow(1, Midnight - 300)
        ELSE NewRow(PriorityBase + 1,
                    Midnight - 200 + BatchRank(CHOOSE n \in 1..count : BatchId(n) = p))]

\* the submission of this row fails on every tick: its queue priority,
\* 10 - priority, is below 0
Rejected(p) == QueuePriority(p) < 0

InitStarve ==
    /\ now = Midnight
    /\ \E count \in StarveCounts : rows = StarveLedger(count)
    /\ contentPosted = [p \in DOMAIN rows |-> FALSE]
    /\ rateLimit = Null
    /\ connection = Null
    /\ jobs = <<>>
    /\ published = [p \in DOMAIN rows |-> 0]
    /\ crashes = 0
    /\ prPc = [r \in Promoters |-> "idle"]
    /\ prNow = [r \in Promoters |-> 0]
    /\ prPosts = [r \in Promoters |-> <<>>]
    /\ prJob = [r \in Promoters |-> Null]
    /\ rcPc = "idle"
    /\ rcTodo = {}
    /\ rcCur = Null
    /\ wPc = [w \in Workers |-> "idle"]
    /\ wJob = [w \in Workers |-> 0]
    /\ wErr = [w \in Workers |-> Null]
    /\ wTweet = [w \in Workers |-> Null]
    /\ wRes = [w \in Workers |-> "none"]
    /\ GatewayOff
    /\ ValidateOff
    /\ SchedulerUp

\* queue.add of the cron run: it rejects for a row the queue rejects, and
\* resolves for any other
StarveAdd ==
    /\ prPc["cron"] = "add"
    /\ ~Rejected(Head(prPosts["cron"]))
    /\ PromoteAdd("cron")
StarveAddFails ==
    /\ prPc["cron"] = "add"
    /\ Rejected(Head(prPosts["cron"]))
    /\ PromoteAddFails("cron")

NextStarve ==
    \/ PromoteQuery("cron")
    \/ StarveAdd
    \/ StarveAddFails
    \/ PromoteUpdate("cron")

\* the cron job ticks again and again, and a run that has begun goes on
FairnessStarve ==
    /\ []<><<PromoteQuery("cron")>>_vars
    /\ WF_vars(StarveAdd \/ StarveAddFails \/ PromoteUpdate("cron"))

SpecStarve == InitStarve /\ [][NextStarve]_vars /\ FairnessStarve

----------------------------------------------------------------------------
(* Promotion and delivery of two posts of any two priorities: the cron     *)
(* task queues them, in one tick or in two, and a consumer serves the      *)
(* queue.                                                                  *)

PrioritySamples == {0, 1, PriorityBase, PriorityBase + 1}
ServeSchedules  == {0, LookAheadMinutes + 1}

InitServe ==
    /\ now = 0
    /\ \E pa, pb \in PrioritySamples, sb \in ServeSchedules :
          rows = [p \in PostIds |-> IF p = "a" THEN NewRow(pa, 0) ELSE NewRow(pb, sb)]
    /\ contentPosted = [p \in PostIds |-> FALSE]
    /\ rateLimit = Null
    /\ connection \in {Null, Some([refreshToken |-> TRUE, expiresAt |-> Null])}
    /\ jobs = <<>>
    /\ published = [p \in PostIds |-> 0]
    /\ crashes = 0
    /\ prPc = [r \in Promoters |-> "idle"]
    /\ prNow = [r \in Promoters |-> 0]
    /\ prPosts = [r \in Promoters |-> <<>>]
    /\ prJob = [r \in Promoters |-> Null]
    /\ rcPc = "idle"
    /\ rcTodo = {}
    /\ rcCur = Null
    /\ wPc = [w \in Workers |-> "idle"]
    /\ wJob = [w \in Workers |-> 0]
    /\ wErr = [w \in Workers |-> Null]
    /\ wTweet = [w \in Workers |-> Null]
    /\ wRes = [w \in Workers |-> "none"]
    /\ GatewayOff
    /\ ValidateOff
    /\ SchedulerUp

NextServe ==
    \/ Tick
    \/ PromoteQuery("cron")
    \/ PromoteAdd("cron")
    \/ PromoteUpdate("cron")
    \/ \E w \in Workers : Pickup(w)
    \/ \E w \in Workers : MarkProcessing(w)
    \/ \E w \in Workers : CredentialsFail(w)
    \/ \E w \in Workers : PostTweetOk(w)
    \/ \E w \in Workers : PostTweetFails(w)
    \/ \E w \in Workers : WriteSuccess(w)
    \/ \E w \in Workers : UpdateContent(w)
    \/ \E w \in Workers : UpdateRateLimit(w)
    \/ \E w \in Workers : HandleFailure(w)
    \/ \E w \in Workers : Finish(w)

SpecServe == InitServe /\ [][NextServe]_vars

----------------------------------------------------------------------------
(* The scheduler process: main() starts the three cron jobs, runs          *)
(* queueUpcomingPosts and recoverStuckJobs once, and registers the signal  *)
(* handlers; a signal runs shutdown.  The storage and queue calls of the   *)
(* three tasks can reject.  The ledger holds two due rows and a row that a *)
(* dead worker left in PROCESSING.                                         *)

\* the process has not exited
Alive == schPc # "exited"

\* the three CronJobs are created and started
MainStartTimers ==
    /\ schPc = "boot"
    /\ timers' = TRUE
    /\ schPc' = "promote"
    /\ UNCHANGED <<gwVars, valVars, queueOpen, serverOpen, ledgerVars, jobs, envVars,
                   promoVars, recovVars, workVars>>

\* await queueUpcomingPosts()
StartupPromoteQuery == schPc = "promote" /\ PromoteQuery("startup")

\* queueUpcomingPosts has returned: await recoverStuckJobs()
MainCallRecover ==
    /\ schPc = "promote"
    /\ prPc["startup"] = "done"
    /\ schPc' = "recover"
    /\ UNCHANGED <<gwVars, valVars, procVars, ledgerVars, jobs, envVars,
                   promoVars, recovVars, workVars>>

\* the run main() awaits finds no stuck post and returns
StartupRecoverNone ==
    /\ schPc = "recover"
    /\ rcPc = "idle"
    /\ StuckPosts = {}
    /\ schPc' = "started"
    /\ UNCHANGED <<gwVars, valVars, procVars, ledgerVars, jobs, envVars,
                   promoVars, recovVars, workVars>>

\* a run of recoverStuckJobs begins: the one main() awaits, or a cron tick
SchedulerRecoverQuery ==
    /\ schPc = "recover" \/ (timers /\ Alive)
    /\ RecoverQuery

\* a cron tick of queueUpcomingPosts, of resetDailyRateLimits
CronPromoteQuery == timers /\ Alive /\ PromoteQuery("cron")
CronDailyReset   == timers /\ Alive /\ DailyReset

\* the findMany of queueUpcomingPosts rejects: the catch of the run logs it
PromoteQueryFails(r) ==
    /\ prPc[r] = "idle"
    /\ prPc' = [prPc EXCEPT ![r] = RunOver(r)]
    /\ UNCHANGED <<sideVars, prNow, prPosts, prJob, ledgerVars, jobs, envVars,
                   recovVars, workVars>>

\* the update to QUEUED rejects: the catch of the loop body logs it and the
\* loop goes on; the job stays in the queue and the row stays as it was
PromoteUpdateFails(r) ==
    /\ prPc[r] = "update"
    /\ PromoteAdvance(r)
    /\ UNCHANGED <<sideVars, ledgerVars, jobs, envVars, recovVars, workVars>>

\* the findMany of recoverStuckJobs rejects: the catch of the run logs it
RecoverQueryFails ==
    /\ rcPc = "idle"
    /\ schPc' = IF schPc = "recover" THEN "started" ELSE schPc
    /\ UNCHANGED <<gwVars, valVars, procVars, ledgerVars, jobs, envVars,
                   promoVars, recovVars, workVars>>

\* variant: the rejection leaves the run, and the process with it
RecoverResetFailsEscapes ==
    /\ rcPc = "reset"
    /\ rcTodo' = {}
    /\ rcPc' = "idle"
    /\ rcCur' = Null
    /\ schPc' = "exited"
    /\ UNCHANGED <<gwVars, valVars, procVars, ledgerVars, jobs, envVars,
                   promoVars, workVars>>
\* the reset of a row rejects: the catch of the run logs it, and the rows
\* that were still to be looked at are left for a later run
RecoverResetFails ==
    /\ rcPc = "reset"
    /\ rcTodo' = {}
    /\ rcPc' = "idle"
    /\ rcCur' = Null
    /\ schPc' = RecoverReturns
    /\ UNCHANGED <<gwVars, valVars, procVars, ledgerVars, jobs, envVars,
                   promoVars, workVars>>

\* the upsert of resetDailyRateLimits rejects: the catch logs it
DailyResetFails ==
    /\ now = Midnight
    /\ UNCHANGED vars

\* SIGTERM or SIGINT after main() has registered the handlers: shutdown
\* stops the three cron jobs and awaits queue.close()
ShutdownStops ==
    /\ schPc = "started"
    /\ timers' = FALSE
    /\ schPc' = "closing"
    /\ UNCHANGED <<gwVars, valVars, queueOpen, serverOpen, ledgerVars, jobs, envVars,
                   promoVars, recovVars, workVars>>

\* queue.close() has resolved: server.close() and process.exit(0)
ShutdownExits ==
    /\ schPc = "closing"
    /\ queueOpen' = FALSE
    /\ serverOpen' = FALSE
    /\ schPc' = "exited"
    /\ UNCHANGED <<gwVars, valVars, timers, ledgerVars, jobs, envVars,
                   promoVars, recovVars, workVars>>

\* SIGTERM or SIGINT before main() has registered the handlers: the process
\* ends at once, as it does for a signal without a handler
SignalKills ==
    /\ schPc \in {"boot", "promote", "recover", "recovering"}
    /\ schPc' = "exited"
    /\ UNCHANGED <<gwVars, valVars, procVars, ledgerVars, jobs, envVars,
                   promoVars, recovVars, workVars>>

SchedulerIds == PostIds \cup {"stuck"}

InitScheduler ==
    /\ now = Midnight
    /\ \E pa, pb \in {0, 1} :
          rows = [p \in SchedulerIds |->
                    CASE p = "a" -> NewRow(pa, Midnight)
                      [] p = "b" -> NewRow(pb, Midnight)
                      [] OTHER   -> StuckRow]
    /\ contentPosted = [p \in SchedulerIds |-> FALSE]
    /\ rateLimit = Null
    /\ connection = Null
    /\ jobs \in StuckJobs
    /\ published = [p \in SchedulerIds |-> 0]
    /\ crashes = 0
    /\ prPc = [r \in Promoters |-> "idle"]
    /\ prNow = [r \in Promoters |-> 0]
    /\ prPosts = [r \in Promoters |-> <<>>]
    /\ prJob = [r \in Promoters |-> Null]
    /\ rcPc = "idle"
    /\ rcTodo = {}
    /\ rcCur = Null
    /\ wPc = [w \in Workers |-> "idle"]
    /\ wJob = [w \in Workers |-> 0]
    /\ wErr = [w \in Workers |-> Null]
    /\ wTweet = [w \in Workers |-> Null]
    /\ wRes = [w \in Workers |-> "none"]
    /\ GatewayOff
    /\ ValidateOff
    /\ schPc = "boot"
    /\ timers = FALSE
    /\ queueOpen = TRUE
    /\ serverOpen = TRUE

\* a step of a run: the process has not exited
NextScheduler ==
    \/ MainStartTimers
    \/ StartupPromoteQuery
    \/ MainCallRecover
    \/ StartupRecoverNone
    \/ CronPromoteQuery
    \/ SchedulerRecoverQuery
    \/ CronDailyReset
    \/ \E r \in Promoters : Alive /\ PromoteAdd(r)
    \/ \E r \in Promoters : Alive /\ PromoteUpdate(r)
    \/ Alive /\ RecoverSkip
    \/ Alive /\ RecoverLookup
    \/ Alive /\ RecoverReset
    \/ \E r \in Promoters : Alive /\ (r = "startup" => schPc = "promote") /\ (r = "cron" => timers) /\ PromoteQueryFails(r)
    \/ \E r \in Promoters : Alive /\ PromoteAddFails(r)
    \/ \E r \in Promoters : Alive /\ PromoteUpdateFails(r)
    \/ Alive /\ (schPc = "recover" \/ timers) /\ RecoverQueryFails
    \/ Alive /\ RecoverResetFails
    \/ Alive /\ timers /\ DailyResetFails
    \/ ShutdownStops
    \/ ShutdownExits
    \/ SignalKills

SpecScheduler == InitScheduler /\ [][NextScheduler]_vars

----------------------------------------------------------------------------
(* The quota record: two due posts of a user with a valid connection are   *)
(* promoted and delivered, and the daily reset runs at midnight.  The      *)
(* record is absent at the start, or stands at the maximum, or at 1 near   *)
(* the end of a window.                                                    *)

InitQuota ==
    /\ now = 0
    /\ rows = [p \in PostIds |-> NewRow(1, 0)]
    /\ contentPosted = [p \in PostIds |-> FALSE]
    /\ rateLimit \in HandlerRateLimits
    /\ connection = Some([refreshToken |-> TRUE, expiresAt |-> Null])
    /\ jobs = <<>>
    /\ published = [p \in PostIds |-> 0]
    /\ crashes = 0
    /\ prPc = [r \in Promoters |-> "idle"]
    /\ prNow = [r \in Promoters |-> 0]
    /\ prPosts = [r \in Promoters |-> <<>>]
    /\ prJob = [r \in Promoters |-> Null]
    /\ rcPc = "idle"
    /\ rcTodo = {}
    /\ rcCur = Null
    /\ wPc = [w \in Workers |-> "idle"]
    /\ wJob = [w \in Workers |-> 0]
    /\ wErr = [w \in Workers |-> Null]
    /\ wTweet = [w \in Workers |-> Null]
    /\ wRes = [w \in Workers |-> "none"]
    /\ GatewayOff
    /\ ValidateOff
    /\ SchedulerUp

NextQuota ==
    \/ Tick
    \/ PromoteQuery("cron")
    \/ PromoteAdd("cron")
    \/ PromoteUpdate("cron")
    \/ DailyReset
    \/ \E w \in Workers : Pickup(w)
    \/ \E w \in Workers : MarkProcessing(w)
    \/ \E w \in Workers : PostTweetOk(w)
    \/ \E w \in Workers : PostTweetFails(w)
    \/ \E w \in Workers : WriteSuccess(w)
    \/ \E w \in Workers : UpdateContent(w)
    \/ \E w \in Workers : UpdateRateLimit(w)
    \/ \E w \in Workers : HandleFailure(w)
    \/ \E w \in Workers : Finish(w)

SpecQuota == InitQuota /\ [][NextQuota]_vars

----------------------------------------------------------------------------
(* validateTweetContent on its own.  A string is held as its runs of       *)
(* whitespace and of other characters, each with its length in UTF-16     *)
(* code units, which is what content.length counts.                       *)

MaxRuns     == 3
TweetLimit  == 280
RunLengths  == {1, 140, 279, 280}
ContentRuns == [ws : BOOLEAN, n : RunLengths]
Contents    == UNION {[1..k -> ContentRuns] : k \in 0..MaxRuns}

\* content.length
RECURSIVE Length(_)
Length(content) ==
    IF content = <<>> THEN 0 ELSE Head(content).n + Length(Tail(content))

\* trimStart and trimEnd, which content.trim() applies one after the other
RECURSIVE TrimStart(_)
TrimStart(content) ==
    IF content # <<>> /\ Head(content).ws THEN TrimStart(Tail(content)) ELSE content

RECURSIVE TrimEnd(_)
TrimEnd(content) ==
    IF content # <<>> /\ content[Len(content)].ws
    THEN TrimEnd(SubSeq(content, 1, Len(content) - 1))
    ELSE content

Trim(content) == TrimEnd(TrimStart(content))

\* variant: the emptiness of the content is tested before its length
validateTweetContentEmptyFirst(content) ==
    IF Length(Trim(content)) = 0
    THEN [valid |-> FALSE, error |-> Some("Tweet content is empty")]
    ELSE IF Length(content) > TweetLimit
    THEN [valid |-> FALSE, error |-> Some("Tweet exceeds 280 character limit")]
    ELSE [valid |-> TRUE, error |-> Null]
\* validateTweetContent: the length first, then the emptiness
validateTweetContent(content) ==
    IF Length(content) > TweetLimit
    THEN [valid |-> FALSE, error |-> Some("Tweet exceeds 280 character limit")]
    ELSE IF Length(Trim(content)) = 0
    THEN [valid |-> FALSE, error |-> Some("Tweet content is empty")]
    ELSE [valid |-> TRUE, error |-> Null]

\* the call returns
Validate ==
    /\ vcIn # Null
    /\ vcOut = Null
    /\ vcOut' = Some(validateTweetContent(Val(vcIn)))
    /\ UNCHANGED <<vcIn, gwVars, schVars, ledgerVars, jobs, envVars, promoVars, recovVars, workVars>>

InitValidate ==
    /\ vcIn \in {Some(c) : c \in Contents}
    /\ vcOut = Null
    /\ GatewayOff
    /\ SchedulerUp
    /\ now = 0
    /\ rows = [p \in PostIds |-> NewRow(0, 0)]
    /\ contentPosted = [p \in PostIds |-> FALSE]
    /\ rateLimit = Null
    /\ connection = Null
    /\ jobs = <<>>
    /\ published = [p \in PostIds |-> 0]
    /\ crashes = 0
    /\ prPc = [r \in Promoters |-> "idle"]
    /\ prNow = [r \in Promoters |-> 0]
    /\ prPosts = [r \in Promoters |-> <<>>]
    /\ prJob = [r \in Promoters |-> Null]
    /\ rcPc = "idle"
    /\ rcTodo = {}
    /\ rcCur = Null
    /\ wPc = [w \in Workers |-> "idle"]
    /\ wJob = [w \in Workers |-> 0]
    /\ wErr = [w \in Workers |-> Null]
    /\ wTweet = [w \in Workers |-> Null]
    /\ wRes = [w \in Workers |-> "none"]

NextValidate == Validate

SpecValidate == InitValidate /\ [][NextValidate]_vars

----------------------------------------------------------------------------
(* Steps, as the properties below recognise them *)

MarkStep(w)  == wPc[w] = "mark" /\ wPc'[w] = "deliver"
FailStep(w)  == wPc[w] = "catch" /\ wPc'[w] = "finish"
ResetStep    == rcPc = "reset" /\ rcPc' # "reset"
QueryStep    == rcPc = "idle" /\ rcPc' = "lookup"

\* a consumer is running processTwitterPost for the post's job, and the queue
\* holds that job as active
GenuinelyActive(p) ==
    \E w \in Workers : /\ wPc[w] # "idle"
                       /\ jobs[wJob[w]].post = p
                       /\ jobs[wJob[w]].state = "active"

LiveJobsOf(p) == {i \in JobIndices : jobs[i].post = p /\ jobs[i].state \in LiveStates}

----------------------------------------------------------------------------
(* C1. Terminal stability: once a row is POSTED or FAILED, no step of      *)
(* promotion, recovery or a worker changes any field of it.                *)
C1_TerminalStability ==
    [][\A p \in PostIds :
          rows[p].status \in {"POSTED", "FAILED"} => rows'[p] = rows[p]]_vars

(* C2. Retry ceiling: when the queue has given up on a job (its attempts   *)
(* are used up, every one failed with a retryable error), the row is       *)
(* FAILED; it has not stayed QUEUED or PROCESSING.                         *)
C2_RetryCeiling ==
    \A i \in JobIndices :
        jobs[i].state = "failed" => rows[jobs[i].post].status = "FAILED"

(* C3. Dedup: for every post X at most one live job exists, and it has the *)
(* id "tweet-X", in every interleaving of the startup run and a cron tick  *)
(* of the promotion task.                                                  *)
C3_Dedup ==
    \A p \in PostIds :
        /\ Cardinality(LiveJobsOf(p)) <= 1
        /\ \A i \in LiveJobsOf(p) : jobs[i].id = "tweet-" \o p

C3_Witness ==
    /\ prPc["startup"] = "update" /\ Head(prPosts["startup"]) = "a"
    /\ prPc["cron"] = "update" /\ Head(prPosts["cron"]) = "a"
    /\ Cardinality(LiveJobsOf("a")) = 1

(* C4, as claimed. Recovery never resets a row whose job is genuinely      *)
(* active (a consumer is running processTwitterPost for it), whatever the  *)
(* lookup of the job's state returns.                                      *)
C4_NoResetWhileActive ==
    [][ResetStep => ~GenuinelyActive(Val(rcCur).post.id)]_vars

(* C4, amended. Recovery never resets a row in a run whose lookup of the   *)
(* row's job returned the state active; a failed lookup counts as not      *)
(* active, and the row is then reset even while a consumer processes it.   *)
C4_NoResetWhenSeenActive ==
    [][ResetStep => Val(rcCur).state # "active"]_vars

C4_Witness ==
    /\ rcPc = "lookup"
    /\ \E post \in rcTodo :
          /\ post.jobId # Null
          /\ getState(getJob(Val(post.jobId))) = "active"
          /\ GenuinelyActive(post.id)

(* C5. Stuck-job recovery: a run selects exactly the rows that are         *)
(* PROCESSING with startedAt older than the threshold; every selected row  *)
(* leaves the run either reset (PENDING, jobId, queuedAt and startedAt     *)
(* cleared, the diagnostic message set, attempts and every other column    *)
(* and row as they were) or, its job being active, untouched; a row is     *)
(* reset once per run, and a run writes no row it did not select.          *)
C5_Recovery ==
    [][/\ QueryStep =>
            rcTodo' = {[id |-> p, jobId |-> rows[p].jobId] :
                         p \in {q \in PostIds :
                                  /\ rows[q].status = "PROCESSING"
                                  /\ rows[q].startedAt # Null
                                  /\ Val(rows[q].startedAt) < now - 10}}
       /\ ResetStep =>
            LET post == Val(rcCur).post
                old  == rows[post.id]
            IN /\ post \in rcTodo /\ post \notin rcTodo'
               /\ rows' = [rows EXCEPT ![post.id] =
                             [old EXCEPT !.status = "PENDING", !.jobId = Null,
                                         !.queuedAt = Null, !.startedAt = Null,
                                         !.errorMessage = Some(TimeoutMessage)]]
               /\ rows'[post.id].attempts = old.attempts
       /\ (rcPc # rcPc' \/ rcTodo # rcTodo') /\ ~ResetStep => rows' = rows
       /\ \A post \in rcTodo \ rcTodo' :
            \/ ResetStep
            \/ /\ post.jobId # Null
               /\ getState(getJob(Val(post.jobId))) = "active"
               /\ rows' = rows
      ]_vars

C5_Witness ==
    /\ rows["a"].status = "PENDING"
    /\ rows["a"].jobId = Null /\ rows["a"].queuedAt = Null /\ rows["a"].startedAt = Null
    /\ rows["a"].errorMessage = Some(TimeoutMessage)
    /\ rows["a"].attempts >= 1

(* C6. Lifecycle transitions: every change of a row's status is one of     *)
(* PENDING->QUEUED, QUEUED->PROCESSING, PENDING->PROCESSING,               *)
(* PROCESSING->POSTED, PROCESSING->QUEUED, PROCESSING->FAILED and          *)
(* PROCESSING->PENDING.                                                    *)
C6_Lifecycle ==
    [][\A p \in PostIds :
          rows'[p].status # rows[p].status =>
              <<rows[p].status, rows'[p].status>> \in
                  {<<"PENDING", "QUEUED">>, <<"QUEUED", "PROCESSING">>,
                   <<"PENDING", "PROCESSING">>, <<"PROCESSING", "POSTED">>,
                   <<"PROCESSING", "QUEUED">>, <<"PROCESSING", "FAILED">>,
                   <<"PROCESSING", "PENDING">>}]_vars

(* C7. Terminal failure does not re-raise: whenever the catch block sets   *)
(* the row to FAILED, processTwitterPost returns {success: false, error}   *)
(* and does not throw.                                                     *)
C7_FailedReturns ==
    [][\A w \in Workers :
          FailStep(w) /\ rows'[PostOf(w)].status = "FAILED" => wRes'[w] = "failure"]_vars

C9_BookkeepingSwallowed ==
    [][\A w \in Workers :
          wTweet[w] # Null /\ wPc'[w] # wPc[w] =>
             /\ rows'[PostOf(w)].status \in {rows[PostOf(w)].status, "POSTED"}
             /\ wRes'[w] \in {"none", "success"}]_vars

DeliverStep(w) == wPc[w] = "deliver" /\ wPc'[w] \in {"catch", "posted"}

CredentialCodes == {"NO_CONNECTION", "MISSING_ACCESS_SECRET", "TOKEN_EXPIRED"}

WriteSuccessStep(w) == wPc[w] = "posted" /\ wPc'[w] = "content"
ReturnSuccessStep(w) == wPc[w] = "rate" /\ wPc'[w] = "finish"

FinishStep(w) == wPc[w] = "finish" /\ wPc'[w] = "idle"

\* postsRemaining of the RateLimitState row; a window that has no row yet
\* counts as full
Remaining(rl) == IF rl = Null THEN 50 ELSE Val(rl).postsRemaining

(* C13. Retry then success: a RATE_LIMITED failure (HTTP 429) on attempt 1 *)
(* of 3 sets the row to QUEUED and is rethrown; the queue then holds the   *)
(* job for redelivery after the backoff, as attempt 2; the attempt that    *)
(* succeeds leaves the row POSTED; postsRemaining goes down only in the    *)
(* rate-limit update of an attempt whose post succeeded, there by exactly  *)
(* 1, and a failed attempt leaves it as it was.                            *)
C13_RetryThenSuccess ==
    [][\A w \in Workers :
          LET job == jobs[wJob[w]]
              p   == PostOf(w)
          IN /\ (/\ FailStep(w) /\ job.attemptsMade = 0 /\ job.attempts = 3
                 /\ Val(wErr[w]).code = "RATE_LIMITED") =>
                   /\ rows'[p].status = "QUEUED"
                   /\ wRes'[w] = "threw"
             /\ (FinishStep(w) /\ wRes[w] = "threw" /\ job.attemptsMade = 0 /\ job.attempts = 3) =>
                   /\ jobs'[wJob[w]].state = "delayed"
                   /\ jobs'[wJob[w]].attemptsMade = 1
                   /\ jobs'[wJob[w]].availableAt = now + 1
                   /\ rows'[p].status = "QUEUED"
             /\ ReturnSuccessStep(w) =>
                   /\ rows'[p].status = "POSTED"
                   /\ Remaining(rateLimit') \in {Remaining(rateLimit) - 1, Remaining(rateLimit)}
                   /\ rateLimit' # rateLimit => Remaining(rateLimit') = Remaining(rateLimit) - 1
             /\ ~ReturnSuccessStep(w) => rateLimit' = rateLimit]_vars

C13_Witness ==
    \E w \in Workers :
        /\ wPc[w] = "finish" /\ wRes[w] = "success"
        /\ jobs[wJob[w]].attemptsMade = 1 /\ jobs[wJob[w]].attempts = 3
        /\ rows[PostOf(w)].status = "POSTED" /\ rows[PostOf(w)].attempts = 2
        /\ rateLimit # Null /\ Val(rateLimit).postsRemaining = 49
        /\ Val(rateLimit).windowResetAt # Null
        /\ published[PostOf(w)] = 1

(* C14. jobId uniqueness: no two rows hold the same non-null jobId, and a  *)
(* non-null jobId is "tweet-" followed by the id of the row that holds it. *)
C14_JobIdUnique ==
    /\ \A p, q \in PostIds : p # q /\ rows[p].jobId # Null => rows[p].jobId # rows[q].jobId
    /\ \A p \in PostIds : rows[p].jobId # Null => rows[p].jobId = Some("tweet-" \o p)

C14_Witness ==
    /\ rows["a"].jobId = Some("tweet-a") /\ rows["a"].queuedAt = Some(2)
    /\ rows["b"].jobId = Some("tweet-b") /\ rows["b"].queuedAt = Some(2)
    /\ prPc["startup"] = "done"

\* steps of a run of queueUpcomingPosts
PromoteQueryStep(r)  == prPc[r] = "idle" /\ prPc'[r] \in {"add", "done"}
PromoteAddStep(r)    == prPc[r] = "add" /\ prPc'[r] = "update"
PromoteAddFailStep(r) ==
    prPc[r] = "add" /\ prPc'[r] # "update" /\ prPosts'[r] # prPosts[r]
PromoteUpdateStep(r) == prPc[r] = "update" /\ prPc'[r] # "update"

Range(s) == {s[i] : i \in DOMAIN s}

C16_FailedSubmission ==
    [][\A r \in Promoters :
          /\ PromoteAddFailStep(r) =>
               /\ rows' = rows
               /\ jobs' = jobs
               /\ prPosts'[r] = Tail(prPosts[r])
               /\ Len(prPosts[r]) > 1 => prPc'[r] = "add"
          /\ PromoteQueryStep(r) =>
               \A p \in PostIds :
                  (/\ rows[p].status = "PENDING" /\ rows[p].platform = "twitter"
                   /\ rows[p].scheduledFor <= now + 5)
                     => \E i \in DOMAIN prPosts'[r] : prPosts'[r][i] = p]_vars

\* the startup run is at row b, the second of its batch, after its
\* submission of row a failed (a has no job and is still PENDING), and the
\* cron tick has selected row a again
C16_Witness ==
    /\ rows["a"].status = "PENDING" /\ rows["a"].platform = "twitter"
    /\ rows["a"].priority = 1 /\ rows["a"].scheduledFor = 2
    /\ rows["b"].priority = 0
    /\ JobsWithId("tweet-a") = {}
    /\ prPc["startup"] = "update" /\ prPosts["startup"] = <<"b">>
    /\ prPc["cron"] = "add" /\ Head(prPosts["cron"]) = "a"

\* postTweet has thrown
GatewayFailed == gwPc = "done" /\ gwOut # Null /\ ~Val(gwOut).ok

(* C17. Gateway error classification is total and fails closed: whatever   *)
(* makes postTweet fail, what it throws is a TwitterError with one code of *)
(* the taxonomy, a message and a retryable flag; the flag is true only for *)
(* RATE_LIMITED, TWITTER_SERVER_ERROR and NETWORK_ERROR; an error of the   *)
(* platform client that matches no case of the mapping (no rate-limit      *)
(* data, a status other than 429, 401, 403 and 5xx, no network errno)      *)
(* becomes UNKNOWN_TWITTER_ERROR, not retryable.                           *)
C17_ClassificationTotal ==
    GatewayFailed =>
        LET e == Val(gwOut).error
        IN /\ DOMAIN e = {"kind", "code", "message", "retryable"}
           /\ e.kind = "twitter"
           /\ e.code \in {"CONFIG_MISSING", "RATE_LIMITED", "AUTH_INVALID", "ACCOUNT_SUSPENDED",
                          "DUPLICATE_TWEET", "FORBIDDEN", "TWITTER_SERVER_ERROR",
                          "NETWORK_ERROR", "UNKNOWN_TWITTER_ERROR"}
           /\ e.message # <<>>
           /\ e.retryable \in BOOLEAN
           /\ e.retryable =>
                 e.code \in {"RATE_LIMITED", "TWITTER_SERVER_ERROR", "NETWORK_ERROR"}
           /\ (/\ gwErr # Null
               /\ ~Val(gwErr).rateLimit
               /\ Val(gwErr).status \notin {429, 401, 403, 500, 599}
               /\ Val(gwErr).errno \notin {"ECONNREFUSED", "ETIMEDOUT", "ENOTFOUND"})
                 => e.code = "UNKNOWN_TWITTER_ERROR" /\ ~e.retryable

C17_Witness ==
    /\ GatewayFailed
    /\ gwErr # Null /\ Val(gwErr).errno = "EPIPE" /\ ~Val(gwErr).rateLimit
    /\ Val(gwErr).message = <<>>
    /\ Val(gwOut).error.code = "UNKNOWN_TWITTER_ERROR"
    /\ ~Val(gwOut).error.retryable

\* the error of client.v2.tweet that the catch of postTweet has classified
GatewayMapped == gwPc = "done" /\ gwErr # Null /\ gwOut # Null /\ ~Val(gwOut).ok

(* C18. Classification by HTTP status, as the specification states it: a   *)
(* 429 is RATE_LIMITED and retryable; a 401 is AUTH_INVALID and not        *)
(* retryable; a 403 is ACCOUNT_SUSPENDED when the message mentions         *)
(* suspension, DUPLICATE_TWEET when it mentions a duplicate, FORBIDDEN     *)
(* otherwise, never retryable; a status of 500 to 599 is                   *)
(* TWITTER_SERVER_ERROR and retryable. The code violates it: rate-limit    *)
(* metadata on the error is tested first and wins over the status.         *)
C18_StatusClassification ==
    GatewayMapped =>
        LET raw == Val(gwErr)
            e == Val(gwOut).error
            message == IF raw.message # <<>> THEN raw.message ELSE raw.detail
        IN /\ raw.status = 429 => e.code = "RATE_LIMITED" /\ e.retryable
           /\ raw.status = 401 => e.code = "AUTH_INVALID" /\ ~e.retryable
           /\ raw.status = 403 =>
                 /\ ~e.retryable
                 /\ e.code = IF Includes(message, "suspended") THEN "ACCOUNT_SUSPENDED"
                             ELSE IF Includes(message, "duplicate") THEN "DUPLICATE_TWEET"
                             ELSE "FORBIDDEN"
           /\ (raw.status >= 500 /\ raw.status < 600) =>
                 e.code = "TWITTER_SERVER_ERROR" /\ e.retryable

(* C19. Over-length content is rejected before the network, as the         *)
(* specification states it: when the content is longer than 280 characters *)
(* postTweet makes no media download, no media upload and no tweet call,   *)
(* and what it ends with is a failure that is not retryable. The code      *)
(* violates it: postTweet never measures the content.                      *)
C19_OverLengthRejected ==
    (gwIn # Null /\ gwIn.content.length > 280) =>
        /\ gwCalls = <<>>
        /\ gwPc = "done" =>
              /\ gwOut # Null /\ ~Val(gwOut).ok
              /\ ~Val(gwOut).error.retryable

\* the URLs among urls whose upload a call log records as done, in the
\* order of urls
RECURSIVE UploadedOf(_, _)
UploadedOf(urls, calls) ==
    IF urls = <<>> THEN <<>>
    ELSE LET rest == UploadedOf(Tail(urls), calls)
         IN IF \E i \in DOMAIN calls :
                    calls[i].op = "upload" /\ calls[i].url = Head(urls) /\ calls[i].ok
            THEN <<MediaId(Head(urls))>> \o rest
            ELSE rest

\* the tweet calls of a call log
TweetCalls(calls) == {i \in DOMAIN calls : calls[i].op = "tweet"}

\* the media URLs postTweet was called with; none when the field is absent
GatewayUrls == IF gwIn = Null \/ gwIn.mediaUrls = Null THEN <<>> ELSE Val(gwIn.mediaUrls)

(* C20. Media partial failure: for every list of media URLs and every      *)
(* pattern of download and upload failures, postTweet downloads and        *)
(* uploads among the first 4 URLs only; its tweet call carries exactly the *)
(* media ids of the items whose upload succeeded, in the order of the      *)
(* list; the tweet call is made whatever failed, with no attachment when   *)
(* every item failed; and postTweet fails only when the API keys are       *)
(* missing or the tweet call itself is rejected, never for a media item.   *)
C20_MediaPartialFailure ==
    /\ \A i \in DOMAIN gwCalls :
          gwCalls[i].op \in {"fetch", "upload"} =>
              \E k \in 1..4 : k <= Len(GatewayUrls) /\ GatewayUrls[k] = gwCalls[i].url
    /\ \A i \in TweetCalls(gwCalls) :
          /\ gwCalls[i].media = UploadedOf(GatewayUrls, gwCalls)
          /\ Len(gwCalls[i].media) <= 4
          /\ \A k \in 1..4 :
                k <= Len(GatewayUrls) =>
                    \E j \in 1..(i - 1) :
                        gwCalls[j].op = "fetch" /\ gwCalls[j].url = GatewayUrls[k]
    /\ (gwPc = "done" /\ gwIn # Null /\ gwIn.config) => Cardinality(TweetCalls(gwCalls)) = 1
    /\ GatewayFailed =>
          \/ ~gwIn.config
          \/ \E i \in TweetCalls(gwCalls) : ~gwCalls[i].ok

\* URLs [A, B]: the download of A fails, B is uploaded, the post is submitted
\* with B as its one attachment
C20_Witness ==
    /\ gwPc = "done" /\ gwOut # Null /\ Val(gwOut).ok
    /\ GatewayUrls = <<"A", "B">>
    /\ \E i \in DOMAIN gwCalls :
          gwCalls[i].op = "fetch" /\ gwCalls[i].url = "A" /\ ~gwCalls[i].ok
    /\ \E i \in DOMAIN gwCalls :
          gwCalls[i].op = "tweet" /\ gwCalls[i].ok /\ gwCalls[i].media = <<MediaId("B")>>

\* the number of code units of a content, run by run
ContentUnits(content) ==
    LET RECURSIVE Sum(_)
        Sum(k) == IF k = 0 THEN 0 ELSE content[k].n + Sum(k - 1)
    IN Sum(Len(content))

\* no run of the content holds anything but whitespace
Blank(content) == \A k \in DOMAIN content : content[k].ws

(* C21. validateTweetContent returns valid = true exactly for a content of *)
(* at most 280 characters that is not empty once trimmed; a content longer *)
(* than 280 characters gives valid = false with the error 'Tweet exceeds   *)
(* 280 character limit', also when it is all whitespace; a shorter content *)
(* that is empty once trimmed gives valid = false with the error 'Tweet    *)
(* content is empty'.                                                      *)
C21_ValidateContent ==
    (vcIn # Null /\ vcOut # Null) =>
        LET content == Val(vcIn)
            result  == Val(vcOut)
            long    == ContentUnits(content) > 280
            blank   == Blank(content)
        IN /\ result.valid <=> (~long /\ ~blank)
           /\ result.valid => result.error = Null
           /\ long => result.error = Some("Tweet exceeds 280 character limit")
           /\ (~long /\ blank) => result.error = Some("Tweet content is empty")

\* 281 characters, all of them whitespace: the length is what is reported
C21_Witness ==
    /\ vcIn # Null /\ vcOut # Null
    /\ Blank(Val(vcIn)) /\ ContentUnits(Val(vcIn)) = 281
    /\ Val(vcOut) = [valid |-> FALSE, error |-> Some("Tweet exceeds 280 character limit")]

(* C22. Terminal rows carry their outcome: in every reachable state a row  *)
(* whose status is POSTED has platformPostId, platformUrl and completedAt  *)
(* set and errorCode and errorMessage null, and a row whose status is      *)
(* FAILED has an errorCode and an errorMessage that are not null.          *)
C22_TerminalOutcome ==
    \A p \in PostIds :
        /\ rows[p].status = "POSTED" =>
              /\ rows[p].platformPostId # Null
              /\ rows[p].platformUrl # Null
              /\ rows[p].completedAt # Null
              /\ rows[p].errorCode = Null
              /\ rows[p].errorMessage = Null
        /\ rows[p].status = "FAILED" =>
              /\ rows[p].errorCode # Null
              /\ rows[p].errorMessage # Null

\* a post that failed, was retried and went out: the row is POSTED and the
\* error that the first attempt left on it is gone
C22_Witness ==
    \E p \in PostIds :
        /\ rows[p].status = "POSTED"
        /\ rows[p].attempts >= 2
        /\ rows[p].platformPostId # Null
        /\ rows[p].errorCode = Null

(* C23. Mark-processing precedes delivery: an invocation of the worker     *)
(* reaches its credential checks and its call of the Delivery Gateway only *)
(* by the update that sets the row of its post to PROCESSING with          *)
(* startedAt set and attempts incremented, and it reaches them from        *)
(* nowhere else; every tweet the platform accepts is accepted in a step of *)
(* an invocation that stands at the gateway call, so after that update.    *)
C23_MarkBeforeDelivery ==
    [][/\ \A w \in Workers :
             (wPc'[w] = "deliver" /\ wPc[w] # "deliver") =>
                 /\ wPc[w] = "mark"
                 /\ wJob'[w] = wJob[w]
                 /\ LET p == PostOf(w)
                    IN /\ rows'[p].status = "PROCESSING"
                       /\ rows'[p].startedAt = Some(now)
                       /\ rows'[p].attempts = rows[p].attempts + 1
       /\ \A w \in Workers :
             (wPc[w] = "deliver" /\ wPc'[w] = "deliver") => wJob'[w] = wJob[w]
       /\ \A p \in PostIds :
             published'[p] # published[p] =>
                 \E w \in Workers :
                     /\ wPc[w] = "deliver" /\ wPc'[w] = "posted"
                     /\ PostOf(w) = p
                     /\ rows[p].attempts >= 1
                     /\ rows[p].lastAttemptAt # Null
    ]_vars

\* the gateway has accepted the tweet of a post whose row the invocation
\* marked PROCESSING and nobody has touched since
C23_Witness ==
    \E w \in Workers :
        /\ wPc[w] = "posted"
        /\ rows[PostOf(w)].status = "PROCESSING"
        /\ rows[PostOf(w)].startedAt # Null
        /\ rows[PostOf(w)].attempts = 1
        /\ published[PostOf(w)] = 1

\* row p is not ranked after row q: its priority is higher, or the same with
\* a scheduledFor that is not later
Ranked(p, q) ==
    \/ rows[p].priority > rows[q].priority
    \/ rows[p].priority = rows[q].priority /\ rows[p].scheduledFor <= rows[q].scheduledFor

(* C24. Promotion order and cap: the rows a tick of promotion selects are  *)
(* due rows in order of priority descending, then scheduledFor ascending;  *)
(* they are at most 100, and all the due rows when those are at most 100;  *)
(* every due row that is left out ranks after every selected row; the tick *)
(* submits its rows to the queue one at a time in that order, and no job   *)
(* is created but by the submission of the row the tick has come to.       *)
C24_OrderAndCap ==
    [][/\ \A r \in Promoters :
             /\ PromoteQueryStep(r) =>
                   LET due == {p \in DOMAIN rows : /\ rows[p].status = "PENDING"
                                                   /\ rows[p].platform = "twitter"
                                                   /\ rows[p].scheduledFor <= now + 5}
                       s == prPosts'[r]
                   IN /\ Len(s) = IF Cardinality(due) > 100 THEN 100 ELSE Cardinality(due)
                      /\ Range(s) \subseteq due
                      /\ Cardinality(Range(s)) = Len(s)
                      /\ \A i, j \in DOMAIN s : i < j => Ranked(s[i], s[j])
                      /\ \A q \in due \ Range(s) : \A i \in DOMAIN s : Ranked(s[i], q)
             /\ PromoteAddStep(r) => prPosts'[r] = prPosts[r]
             /\ (prPc[r] \in {"add", "update"} /\ prPosts'[r] # prPosts[r]) =>
                   prPosts'[r] = Tail(prPosts[r])
       /\ jobs' # jobs =>
             \E r \in Promoters :
                 /\ PromoteAddStep(r)
                 /\ jobs' = Append(jobs, jobs'[Len(jobs')])
                 /\ jobs'[Len(jobs')].post = Head(prPosts[r])
    ]_vars

\* a tick over 102 due rows is over: it has queued 100 rows, of more than
\* one priority, and left two, which rank after each row it queued
C24_Witness ==
    /\ prPc["cron"] = "idle"
    /\ Cardinality(DuePosts(now)) = 2
    /\ Cardinality({p \in DOMAIN rows : rows[p].status = "QUEUED"}) = 100
    /\ \E p, q \in DOMAIN rows :
          rows[p].status = "QUEUED" /\ rows[q].status = "QUEUED"
          /\ rows[p].priority # rows[q].priority
    /\ \A p \in DOMAIN rows : \A q \in DuePosts(now) :
          rows[p].status = "QUEUED" => Ranked(p, q)

\* the queue can hand job i to a consumer now
Servable(i) == jobs[i].state \in {"waiting", "delayed"} /\ jobs[i].availableAt <= now

\* a free consumer takes job i
ServeStep(w, i) == wPc[w] = "idle" /\ wPc'[w] = "mark" /\ wJob'[w] = i

(* C25. Priority inversion preserves urgency: the job of a row of          *)
(* application priority p is given queue priority 10 - p, so of two jobs   *)
(* the one whose row has the higher application priority has the strictly  *)
(* lower queue priority; and the queue, which serves the lowest number     *)
(* first, never hands a consumer a job while a job of a row of higher      *)
(* application priority can be served.                                     *)
C25_PriorityInversion ==
    [][/\ \A i \in DOMAIN jobs' : jobs'[i].priority = 10 - rows'[jobs'[i].post].priority
       /\ \A i, j \in DOMAIN jobs' :
             rows'[jobs'[i].post].priority > rows'[jobs'[j].post].priority =>
                 jobs'[i].priority < jobs'[j].priority
       /\ \A w \in Workers : \A i \in DOMAIN jobs :
             ServeStep(w, i) =>
                 \A k \in DOMAIN jobs :
                     Servable(k) => rows[jobs[k].post].priority <= rows[jobs[i].post].priority
    ]_vars

\* a consumer has taken the job that was queued last, of the row of higher
\* application priority, while the job queued first is still waiting
C25_Witness ==
    \E w \in Workers :
        /\ wPc[w] = "mark"
        /\ wJob[w] = 2
        /\ Len(jobs) = 2
        /\ Servable(1)
        /\ rows[jobs[2].post].priority > rows[jobs[1].post].priority
        /\ jobs[2].priority < jobs[1].priority

\* a step of a run of one of the three tasks, a failing call included
TaskStep ==
    \/ promoVars' # promoVars
    \/ recovVars' # recovVars
    \/ rateLimit' # rateLimit
    \/ rcPc = "idle" /\ schPc = "recover" /\ schPc' = "started"

\* main() is where it was, or has gone on to what follows the run it awaited
MainGoesOn ==
    \/ schPc' = schPc
    \/ schPc = "recover" /\ schPc' \in {"recovering", "started"}
    \/ schPc = "recovering" /\ schPc' = "started"

(* C26. Dispatcher fault isolation: an error raised inside a run of the    *)
(* promote, recover or daily-reset task (a failing storage query, queue    *)
(* call or row update) is caught inside the run: no step of a run, failing *)
(* or not, ends the process, derails main(), stops a cron job or closes    *)
(* the queue or the health server, so that after the failing run the       *)
(* process is running and the three tasks are enabled as before.           *)
C26_FaultIsolation ==
    [][TaskStep =>
          /\ schPc' # "exited"
          /\ MainGoesOn
          /\ timers' = timers
          /\ queueOpen' = queueOpen
          /\ serverOpen' = serverOpen
    ]_vars

\* the startup runs are over and no run is under way; row "a" is still
\* PENDING though its job is in the queue (the update to QUEUED failed), and
\* the stuck row, whose job is gone, is still PROCESSING (the query or the
\* reset of the startup recovery failed); the process is up with its cron
\* jobs started
C26_Witness ==
    /\ schPc = "started"
    /\ timers
    /\ queueOpen
    /\ prPc = [r \in Promoters |-> RunOver(r)]
    /\ rcPc = "idle"
    /\ rows["a"].status = "PENDING"
    /\ \E i \in DOMAIN jobs : jobs[i].post = "a"
    /\ rows["stuck"].status = "PROCESSING"
    /\ \A i \in DOMAIN jobs : jobs[i].post # "stuck"

\* main() is awaiting one of the two startup runs
StartupInProgress == schPc \in {"promote", "recover", "recovering"}

(* C28. Startup ordering: the promote task and then the recover task run   *)
(* once to completion, and only then are the periodic timers started:      *)
(* while a startup run is in progress the cron jobs are not started and no *)
(* run of a cron tick is under way.                                        *)
C28_StartupOrdering ==
    StartupInProgress => (~timers /\ prPc["cron"] = "idle")

\* a promote run has enqueued a job and not yet updated the row, or a
\* recover run has looked up the job and not yet reset the row
HalfApplied ==
    \/ \E r \in Promoters : prPc[r] = "update"
    \/ rcPc = "reset"

(* C29. Scheduler shutdown: when the process has exited through shutdown   *)
(* (the queue connection is closed), the three cron jobs are stopped, the  *)
(* health server is closed, and no task run is left half-applied: no       *)
(* promote run has enqueued a job whose row update is outstanding, and no  *)
(* recover run is between its job-state check and its row reset.           *)
C29_GracefulShutdown ==
    (schPc = "exited" /\ ~queueOpen) =>
        (~timers /\ ~serverOpen /\ ~HalfApplied)

\* the last step of a run of queueUpcomingPosts, of recoverStuckJobs; a step
\* of resetDailyRateLimits
PromoteRunEnds == \E r \in Promoters : prPc[r] \in {"add", "update"} /\ prPc'[r] = RunOver(r)
RecoverRunEnds == rcPc # "idle" /\ rcPc' = "idle"
DailyResetStep == rateLimit' # rateLimit

\* what a run that began now would find to do: rows to promote; stuck rows
\* whose job is not active; a rate limit record that the upsert changes
PromoteWork == DuePosts(now)
RecoverWork == {post \in StuckPosts : \E state \in LookupResults(post) \ {"error"} : ~JobActive(state)}
DailyWork   == DailyResetUpsert(rateLimit) # rateLimit

QueuedPosts == {p \in DOMAIN rows : rows[p].status = "QUEUED"}

ClassifiedAsDocumented ==
    /\ \A code \in TwitterErrorCodes :
          categorizeError(TwitterError(code)) =
              [code |-> code, message |-> "msg:" \o code,
               retryable |-> TwitterErrorRetryable(code)]
    /\ categorizeError(PlainError(TRUE)).code = "NETWORK_ERROR"
    /\ categorizeError(PlainError(TRUE)).retryable
    /\ categorizeError(PlainError(FALSE)).code = "UNKNOWN_ERROR"
    /\ ~categorizeError(PlainError(FALSE)).retryable

(* C30. Worker-side classification: categorizeError returns a              *)
(* TwitterError's own code, message and retryable flag, NETWORK_ERROR      *)
(* (retryable) for another Error that names a network failure, and         *)
(* UNKNOWN_ERROR (not retryable) for anything else; and every error raised *)
(* in the worker's attempt is classified: an invocation that ends by       *)
(* throwing, which is what makes the queue retry the job, throws an error  *)
(* that categorizeError calls retryable.                                   *)
C30_ClassifiedOrNotRetried ==
    /\ ClassifiedAsDocumented
    /\ \A w \in Workers :
          (wPc[w] = "finish" /\ wRes[w] = "threw") =>
              (wErr[w] # Null /\ categorizeError(Val(wErr[w])).retryable)

(* C31. At-most-once delivery: for every post, across all invocations,     *)
(* retries and redeliveries, the gateway publishes the tweet at most once. *)
(* No run of recoverStuckJobs takes part, so no job-state lookup errs or   *)
(* races with a worker.                                                    *)
C31_AtMostOnce ==
    /\ rcPc = "idle"
    /\ \A p \in DOMAIN published : published[p] <= 1

\* a job of post p that the queue will still hand to a consumer, or that a
\* consumer holds
PendingJobsOf(p) ==
    {i \in DOMAIN jobs : jobs[i].post = p /\ jobs[i].id = JobId(p)
                         /\ jobs[i].state \in {"waiting", "delayed", "active"}}

(* C32. No orphaned QUEUED row: in every reachable state a row with status *)
(* QUEUED has its job "tweet-<id>" in the queue, waiting, delayed or       *)
(* active; a row is never QUEUED while its job has failed for good, has    *)
(* completed or is absent.                                                 *)
C32_NoOrphanedQueued ==
    \A p \in DOMAIN rows : rows[p].status = "QUEUED" => PendingJobsOf(p) # {}

\* a twitter row that is PENDING and has come due
DuePending(p) ==
    /\ rows[p].status = "PENDING"
    /\ rows[p].platform = "twitter"
    /\ rows[p].scheduledFor <= now

(* C33. Every post is eventually settled: under fair scheduling of the     *)
(* cron ticks, the queue and the workers, with the worker process dying    *)
(* finitely often, every PENDING twitter row that has come due eventually  *)
(* reaches POSTED or FAILED.                                               *)
C33_EventuallySettled ==
    \A p \in PostIds : DuePending(p) ~> (rows[p].status \in {"POSTED", "FAILED"})

(* C34. Promotion does not overwrite a worker's write: the update of a     *)
(* promotion run, which comes after its queue.add, changes the status only *)
(* of a row that is still PENDING; a row that a worker has meanwhile       *)
(* marked PROCESSING or finished as POSTED or FAILED keeps its status.     *)
C34_PromotionKeepsWorkerWrite ==
    [][\A r \in Promoters :
          PromoteUpdateStep(r) =>
              \A p \in DOMAIN rows :
                  rows[p].status # "PENDING" => rows'[p].status = rows[p].status
    ]_vars

(* C35. In-flight rows keep their job reference: in every reachable state  *)
(* a row with status QUEUED or PROCESSING has the jobId "tweet-<id>", so   *)
(* that the active-check of recovery looks at the job that is working the  *)
(* row.                                                                    *)
C35_InFlightJobReference ==
    \A p \in DOMAIN rows :
        rows[p].status \in {"QUEUED", "PROCESSING"} => rows[p].jobId = Some(JobId(p))

\* the ceiling test of the catch block, on the job, and the same test on the
\* attempts counter of the job's row
JobCeilingReached(job) == ~(job.attemptsMade < AttemptCeiling(job))
RowCeilingReached(job) == ~(rows[job.post].attempts < AttemptCeiling(job))

(* C36. Total attempts are bounded by the ceiling: in every reachable      *)
(* state every row's attempts counter is at most the attempt ceiling 3,    *)
(* and when the catch block tests the ceiling, the test on                 *)
(* job.attemptsMade and the row's attempts counter agree on whether the    *)
(* ceiling is reached.                                                     *)
C36_AttemptsBounded ==
    /\ \A p \in DOMAIN rows : rows[p].attempts <= DefaultAttempts
    /\ \A w \in Workers :
          wPc[w] = "catch" =>
              (JobCeilingReached(jobs[wJob[w]]) <=> RowCeilingReached(jobs[wJob[w]]))

\* queue.add has resolved for the row: its job is in the queue
Submitted(p) == JobsWithId(JobId(p)) # {}

(* C37. No starvation by unpromotable rows: under repeated promotion       *)
(* ticks, a due PENDING twitter row is eventually submitted to the queue,  *)
(* also when as many rows as one run takes sort before it, fail to be      *)
(* submitted on every tick and stay PENDING.                               *)
C37_NoStarvation ==
    (DuePosts(now) # {} /\ "a" \in DuePosts(now)) ~> Submitted("a")

\* the upsert of updateRateLimitState, of resetDailyRateLimits
QuotaPostStep  == \E w \in Workers : wPc[w] = "rate" /\ wPc'[w] = "finish" /\ rateLimit' # rateLimit
QuotaResetStep == wPc' = wPc /\ rateLimit' # rateLimit

(* C38. Quota counter stays in range: after any sequence of successful     *)
(* posts and daily resets postsRemaining is between 0 and the daily        *)
(* maximum 50; a daily reset sets it to exactly 50 with windowResetAt 24   *)
(* hours ahead, whatever it was; each successful post lowers it by exactly *)
(* 1, or creates the record at 49 when there is none.                      *)
C38_QuotaInRange ==
    [][/\ rateLimit' # Null =>
             (0 <= Val(rateLimit').postsRemaining /\ Val(rateLimit').postsRemaining <= DailyMax)
       /\ QuotaResetStep =>
             /\ Val(rateLimit').postsRemaining = DailyMax
             /\ Val(rateLimit').windowResetAt = Some(now + MinutesPerDay)
       /\ QuotaPostStep =>
             Val(rateLimit').postsRemaining =
                 IF rateLimit = Null THEN FirstRemaining ELSE Val(rateLimit).postsRemaining - 1
    ]_vars

(* C39. Queue priority is always valid: for every priority value a ledger  *)
(* row can hold, the queue priority 10 - priority that promotion submits   *)
(* is a non-negative integer, so no due row is rejected by the queue on    *)
(* every tick because of its priority.                                     *)
C39_QueuePriorityValid ==
    /\ \A r \in Promoters :
          prPc[r] = "add" =>
              (QueuePriority(Head(prPosts[r])) \in Int /\ QueuePriority(Head(prPosts[r])) >= 0)
    /\ \A i \in DOMAIN jobs : jobs[i].priority >= 0

====
